---------------------------- MODULE Spec2Model ----------------------------
(***************************************************************************)
(* A model of the Poke orchestrator core: the SessionManager (registry,    *)
(* capacity, lock file) and the Session (status machine, text              *)
(* aggregation, tool correlation, event callback, message loop).           *)
(*                                                                         *)
(* Node runs one event loop: every action below is one synchronous run of  *)
(* a handler, from its start or from the point where an await resumed, up  *)
(* to the next await.  File-system requests of concurrent calls complete   *)
(* in any order (the libuv thread pool gives no order between them).       *)
(***************************************************************************)
EXTENDS Integers, Sequences, FiniteSets, TLC

(***************************************************************************)
(* Bounds of the model.                                                    *)
(***************************************************************************)
\* the configured SessionManagerConfig.maxSessions (the default is 5)
maxSessions == 2
\* longest text the aggregation buffer holds in the model
MaxText == 2
\* most content blocks in one assistant message
MaxBlocks == 2
\* most pending timers of one kind (flush, or TTL of one tool call id)
MaxTimers == 2
\* largest value of consecutiveCallbackFailures the model follows
MaxFailures == 2
\* most values waiting in a session's input channel
MaxInput == 1
MaxEvents == 2
MaxShutdownCalls == 2
MaxSweeps == 2
MaxToolCalls == 2
MaxPath == 2
MaxChunks == 3
MaxPushes == 5

\* the question and permission ids randomUUID() can return, each used once
QuestionIds == {"q1", "q2"}
PermissionIds == {"p1", "p2"}
CorrIds == QuestionIds \cup PermissionIds
\* the session ids randomUUID() can return in the model, each used once
Ids == {"s1", "s2", "s3"}
\* concurrent command invocations (MCP tool calls in flight)
Calls == {"c1", "c2"}
\* lock-file writers: the calls, and the constructor's initialize()
Writers == Calls \cup {"init"}
ToolIds == {"t1", "t2"}
\* text fragments of stream events; a content_block_start carries text ''
Fragments == {<<>>, <<"a">>, <<"b">>}

VARIABLES
  sessions,            \* SessionManager.sessions: the ids in the registry
  usedIds,             \* ids randomUUID() has already returned
  workspaces,          \* the session directories under workspacesDir
  pendingQuestions,    \* SessionManager.pendingQuestions: set of [id, sessionId]
  pendingPermissions,  \* SessionManager.pendingPermissions: set of [id, sessionId]
  call,                \* per invocation: [op, sid, pc]
  lastResult,          \* [op, sid, res]: the call the last step ended, if any
  initPc,              \* the constructor's initialize(): where it stands
  writer,              \* per writer, writeLockFile(): [pc, content, fd]
  tmpFile,             \* the file at lockFilePath + '.tmp'
  lockFile,            \* the file at lockFilePath
  session,             \* per id, the fields of the Session object
  windowFrags,         \* history: fragments received in the open window
  closedWindow,        \* history: the window the last handler flushed
  toolHist,            \* history: per tool call id, what became of it
  expectedResults,     \* history: the results the last message asks for
  doneTerminate,       \* history: ids whose terminateSession completed
  issuedIds,           \* correlation ids randomUUID() has already returned
  timeouts,            \* correlation ids whose expiry setTimeout is armed
  completed,           \* correlation ids whose `completed` flag is set
  resolveCalls,        \* history: per correlation id, calls of its resolve
  rejectCalls,         \* history: per correlation id, calls of its reject
  initTodo,            \* initialize(): the directories its loop has yet to rm
  readLock,            \* history: what initialize() read from the lock file
  startDirs,           \* history: the workspace directories it found
  queue,               \* PokeWebhookSender.queue
  timer,               \* PokeWebhookSender.timer is set
  batches,             \* the sendToPoke calls, in the order they were made
  offered,             \* history: number of queueEvent calls
  accepted,            \* history: the calls whose event was queued
  lastCall,            \* history: the sender's last step
  shutdownPc,          \* performShutdown(): "none" while shutdownPromise is null
  cleanupInterval,     \* the idle reaper's setInterval is set
  raceFired,           \* sessions whose 10 s termination race timer fired
  attempted,           \* history: sessions shutdown called terminateSession for
  registeredAtShutdown,\* history: the registry as performShutdown started
  shutdownCalls,       \* history: number of shutdown() calls
  shutdownRuns,        \* history: number of performShutdown() runs
  sweeps,              \* history: number of cleanupStaleSessions() runs
  lastExpired,         \* history: the sessions idle too long at the last sweep
  toolResult,          \* what the last command handler gave back, and why
  toolCalls,           \* history: number of command handler calls
  batchTerminate,      \* batch_terminate_sessions in progress: its items
  fileRequest,         \* a workspace file call's arguments: [sid, rel]
  fileAccess,          \* history: the last workspace file call and its outcome
  messageChunks,       \* SessionManager.messageChunks: per id, the cached chunks
  chunkLog,            \* history: per id, every chunk handleSessionEvent got
  readLog,             \* history: per id, what the reads returned, in a row
  lastRead,            \* history: the last readMessageHistory call's outcome
  chan,                \* a pushable on its own: [queue, resolve, ended]
  pushLog,             \* history: the push calls, [value, afterEnd]
  delivered            \* history: what the consumer's next() calls settled with

mgrVars == <<sessions, usedIds, workspaces, pendingQuestions,
             pendingPermissions, call, initPc>>
fileVars == <<writer, tmpFile, lockFile>>
histVars == <<windowFrags, closedWindow, toolHist, expectedResults,
              doneTerminate>>
brokerVars == <<issuedIds, timeouts, completed, resolveCalls, rejectCalls>>
\* what the registry, lock file and session operations leave alone
startVars == <<initTodo, readLock, startDirs>>
webhookVars == <<queue, timer, batches, offered, accepted, lastCall>>
shutdownVars == <<shutdownPc, cleanupInterval, raceFired, attempted,
                  registeredAtShutdown, shutdownCalls, shutdownRuns>>
reaperVars == <<sweeps, lastExpired>>
toolVars == <<toolResult, toolCalls, batchTerminate>>
filesVars == <<fileRequest, fileAccess>>
chunkHist == <<chunkLog, readLog, lastRead>>
chanVars == <<chan, pushLog, delivered>>
restVars == <<filesVars, messageChunks, chunkHist, chanVars>>
moreVars == <<toolVars, restVars>>
lateVars == <<shutdownVars, reaperVars, moreVars>>
extVars == <<brokerVars, startVars, webhookVars, lateVars>>
vars == <<mgrVars, lastResult, fileVars, session, histVars, extVars>>

(***************************************************************************)
(* Files.  A file is absent, empty (just truncated), one complete record   *)
(* or torn (bytes of two records).  len stands for the byte length: the    *)
(* pid and startedAt fields have a fixed width, so a record's length grows *)
(* with the number of session ids it lists.                                *)
(***************************************************************************)
Absent == [kind |-> "absent", ids |-> {}, len |-> 0, pid |-> "none"]
Empty == [kind |-> "empty", ids |-> {}, len |-> 0, pid |-> "none"]
\* the record the current process writes (pid: process.pid)
LockRecord(ids) ==
  [kind |-> "record", ids |-> ids, len |-> Cardinality(ids) + 1, pid |-> "self"]
\* the record an earlier orchestrator process left behind
PrevRecord(ids, pid) ==
  [kind |-> "record", ids |-> ids, len |-> Cardinality(ids) + 1, pid |-> pid]
Torn(len) == [kind |-> "torn", ids |-> {}, len |-> len, pid |-> "none"]

\* write(fd, data) at offset 0 of a file holding `old`: a shorter record
\* leaves the tail of the longer one behind it.
Overlay(old, rec) ==
  IF old.len <= rec.len THEN rec
  ELSE Torn(old.len)

NoWriter == [pc |-> "none", content |-> {}, fd |-> "none"]
NoCall == [op |-> "none", sid |-> "none", pc |-> "idle"]
NoResult == [op |-> "none", sid |-> "none", res |-> "none"]

(***************************************************************************)
(* SessionManager: reading a session's workspace.  A path is its sequence  *)
(* of segments from the root, a segment is its sequence of characters, and *)
(* str(p) is the string node:path gives for it.  A caller's path is        *)
(* [abs, segs]: whether it starts with a separator, and its segments.      *)
(***************************************************************************)
DotDot == <<".", ".">>
Dot == <<".">>
\* config.workspacesDir
workspacesDir == << <<"w">> >>
\* the directory name of a session id
dirName(sid) ==
  IF sid = "s1" THEN <<"s", "1">>
  ELSE IF sid = "s2" THEN <<"s", "2">>
  ELSE <<"s", "3">>
join(dir, name) == Append(dir, name)

\* what a caller's path can be made of: the parent, the directory itself,
\* a file name, the name of another session's directory, and a name that
\* starts with the name of s1's directory
RelSegs == {DotDot, Dot, <<"f">>, <<"s", "2">>, <<"s", "1", "0">>}
SeqsUpTo(S, n) == UNION {[1..k -> S] : k \in 0..n}
RelPaths == [abs : BOOLEAN, segs : SeqsUpTo(RelSegs, MaxPath)]
NoRequest == [sid |-> "none", rel |-> [abs |-> FALSE, segs |-> <<>>]]
FileRequests == [sid : Ids, rel : RelPaths]

RECURSIVE normalize(_, _)
normalize(stack, segs) ==
  IF segs = <<>> THEN stack
  ELSE LET h == Head(segs)
       IN  normalize(IF h = DotDot
                       THEN IF stack = <<>> THEN <<>>
                            ELSE SubSeq(stack, 1, Len(stack) - 1)
                     ELSE IF h = Dot THEN stack
                     ELSE Append(stack, h),
                     Tail(segs))
\* path.resolve(base, rel)
resolve(base, rel) ==
  IF rel.abs THEN normalize(<<>>, rel.segs) ELSE normalize(base, rel.segs)

RECURSIVE strSegs(_)
strSegs(p) ==
  IF p = <<>> THEN <<>> ELSE <<"/">> \o Head(p) \o strSegs(Tail(p))
str(p) == IF p = <<>> THEN <<"/">> ELSE strSegs(p)

\* a containment test on the segments instead of the characters
startsWithSegments(full, prefix) ==
  /\ Len(prefix) <= Len(full)
  /\ SubSeq(full, 1, Len(prefix)) = prefix

\* String.prototype.startsWith
startsWith(s, prefix) ==
  /\ Len(prefix) <= Len(s)
  /\ SubSeq(s, 1, Len(prefix)) = prefix

NoAccess ==
  [op |-> "none", sid |-> "none", rel |-> [abs |-> FALSE, segs |-> <<>>],
   workspace |-> <<>>, target |-> <<>>, fsCall |-> "none", code |-> "none"]

\* resolveWorkspacePath: the registered session's cwd, else the directory
\* of that name under the workspace root if stat finds it
resolveWorkspacePath(sid) ==
  IF sid \in sessions \/ sid \in workspaces
    THEN [found |-> TRUE, path |-> join(workspacesDir, dirName(sid))]
    ELSE [found |-> FALSE, path |-> <<>>]

\* the three readers: resolve the workspace, resolve the path against it,
\* test it, then make the one file-system call `fsCall` on the target;
\* `exists` says whether that call finds its target (ENOENT otherwise)
access(op, fsCall, exists) ==
  LET sid == fileRequest.sid
      rel == fileRequest.rel
      ws == resolveWorkspacePath(sid)
      fullPath == resolve(ws.path, rel)
  IN  /\ fileRequest # NoRequest
      /\ fileAccess' =
           IF ~ws.found
             THEN [op |-> op, sid |-> sid, rel |-> rel, workspace |-> <<>>,
                   target |-> <<>>, fsCall |-> "none",
                   code |-> "WORKSPACE_NOT_FOUND"]
           ELSE IF ~startsWith(str(fullPath), str(ws.path))
             THEN [op |-> op, sid |-> sid, rel |-> rel,
                   workspace |-> ws.path, target |-> fullPath,
                   fsCall |-> "none", code |-> "FILE_ACCESS_ERROR"]
           ELSE [op |-> op, sid |-> sid, rel |-> rel,
                 workspace |-> ws.path, target |-> fullPath,
                 fsCall |-> fsCall,
                 code |-> IF exists THEN "none" ELSE "FILE_ACCESS_ERROR"]
      /\ UNCHANGED <<mgrVars, lastResult, fileVars, session, histVars,
                     brokerVars, startVars, webhookVars, shutdownVars,
                     reaperVars, toolVars, fileRequest, messageChunks,
                     chunkHist, chanVars>>

ReadSessionFile(exists) == access("readSessionFile", "readFile", exists)
ListSessionFiles(exists) == access("listSessionFiles", "readdir", exists)
GetSessionFileInfo(exists) == access("getSessionFileInfo", "stat", exists)

(***************************************************************************)
(* Session: construction.                                                  *)
(***************************************************************************)
NewInput == [queue |-> <<>>, ended |-> FALSE, resolve |-> FALSE]

NewSession ==
  [status |-> "idle",
   permissionMode |-> "bypassPermissions",
   inPlanMode |-> FALSE,
   cancelled |-> FALSE,
   messageLoop |-> "running",
   textBuffer |-> <<>>,
   textFlushTimeout |-> FALSE,
   pendingFlush |-> 0,
   toolCallNames |-> [t \in ToolIds |-> "none"],
   toolCallTimers |-> [t \in ToolIds |-> FALSE],
   pendingTtl |-> [t \in ToolIds |-> 0],
   input |-> NewInput,
   interrupting |-> FALSE,
   consecutiveCallbackFailures |-> 0,
   thrown |-> FALSE,
   emitted |-> <<>>]


(***************************************************************************)
(* Session: the event callback.  `o` is what the registered callback does  *)
(* with the event: "ok" (returns, or its promise resolves), "reject" (its  *)
(* promise rejects) or "throw" (it throws synchronously).  st.thrown says  *)
(* that an exception is propagating: no later statement of the handler     *)
(* runs.  Every delivered event is logged in st.emitted with the text      *)
(* that was still buffered when it was delivered.                          *)
(***************************************************************************)
Ev(type, data) == [type |-> type, data |-> data]

emitEvent(st, ev, o) ==
  IF st.thrown THEN st
  ELSE LET logged == [st EXCEPT !.emitted = Append(@,
                        [type |-> ev.type, data |-> ev.data,
                         pending |-> st.textBuffer, cb |-> o])]
       IN CASE o = "ok" -> [logged EXCEPT !.consecutiveCallbackFailures = 0]
            [] o = "reject" ->
                 [logged EXCEPT !.consecutiveCallbackFailures = @ + 1]
            [] OTHER -> [logged EXCEPT !.thrown = TRUE]

(***************************************************************************)
(* Session: text aggregation.                                              *)
(***************************************************************************)
bufferTextChunk(st, text) ==
  IF st.thrown THEN st
  ELSE LET b == [st EXCEPT !.textBuffer = @ \o text]
       IN IF ~b.textFlushTimeout
          THEN [b EXCEPT !.textFlushTimeout = TRUE, !.pendingFlush = @ + 1]
          ELSE b

\* a flush that delivers the buffer and forgets to empty it
flushTextBufferKeeps(st, o) ==
  IF st.thrown THEN st
  ELSE LET c == IF st.textFlushTimeout
                THEN [st EXCEPT !.textFlushTimeout = FALSE,
                                !.pendingFlush = @ - 1]
                ELSE st
       IN IF c.textBuffer # <<>>
          THEN emitEvent(c, Ev("message_chunk", c.textBuffer), o)
          ELSE c

flushTextBuffer(st, o) ==
  IF st.thrown THEN st
  ELSE LET c == IF st.textFlushTimeout
                THEN [st EXCEPT !.textFlushTimeout = FALSE,
                                !.pendingFlush = @ - 1]
                ELSE st
       IN IF c.textBuffer # <<>>
          THEN emitEvent([c EXCEPT !.textBuffer = <<>>],
                         Ev("message_chunk", c.textBuffer), o)
          ELSE c

\* the setTimeout callback of bufferTextChunk
flushTimerCallback(st, o) ==
  flushTextBuffer([st EXCEPT !.textFlushTimeout = FALSE,
                             !.pendingFlush = @ - 1], o)

(***************************************************************************)
(* Session: tool correlation.  toolCallTimers[t] says that the map holds a *)
(* timer for t (always a pending one: a timer that fires removes the       *)
(* entry); pendingTtl[t] counts the pending timers created for t, the one  *)
(* in the map included.                                                    *)
(***************************************************************************)
trackToolCall(st, toolCallId, toolName) ==
  IF st.thrown THEN st
  ELSE [st EXCEPT !.toolCallNames[toolCallId] = toolName,
                  !.pendingTtl[toolCallId] = @ + 1,
                  !.toolCallTimers[toolCallId] = TRUE]

\* a lookup that leaves the tracking entry in place
getToolNameKeeps(st, toolCallId) ==
  [name |-> IF st.toolCallNames[toolCallId] = "none" THEN "unknown"
            ELSE st.toolCallNames[toolCallId],
   st |-> st]

\* the result: the name, and the session after the entry is cleaned up
getToolName(st, toolCallId) ==
  [name |-> IF st.toolCallNames[toolCallId] = "none" THEN "unknown"
            ELSE st.toolCallNames[toolCallId],
   st |-> [st EXCEPT !.toolCallNames[toolCallId] = "none",
                     !.pendingTtl[toolCallId] =
                        IF st.toolCallTimers[toolCallId] THEN @ - 1 ELSE @,
                     !.toolCallTimers[toolCallId] = FALSE]]

\* the setTimeout callback of trackToolCall
ttlTimerCallback(st, toolCallId) ==
  [st EXCEPT !.toolCallNames[toolCallId] = "none",
             !.toolCallTimers[toolCallId] = FALSE,
             !.pendingTtl[toolCallId] = @ - 1]

(***************************************************************************)
(* The input channel (createPushable).                                     *)
(***************************************************************************)
\* a push that does not look at `ended`
pushAfterEnd(in, value) ==
  IF in.resolve THEN [in EXCEPT !.resolve = FALSE]
  ELSE [in EXCEPT !.queue = Append(@, value)]

push(in, value) ==
  IF in.ended THEN in
  ELSE IF in.resolve THEN [in EXCEPT !.resolve = FALSE]
  ELSE [in EXCEPT !.queue = Append(@, value)]

end(in) == [in EXCEPT !.ended = TRUE, !.resolve = FALSE]

\* the consumer's next(): a queued value, done, or a wait
next(in) ==
  IF in.queue # <<>> THEN [in EXCEPT !.queue = Tail(@)]
  ELSE IF in.ended THEN in
  ELSE [in EXCEPT !.resolve = TRUE]

\* what the pending next() of a waiting consumer settles with, if a call
\* settles it: push hands it the value, end hands it done (written 0: the
\* values are numbered from 1)
Done == 0
settledByPush(in, value) == IF ~in.ended /\ in.resolve THEN <<value>> ELSE <<>>
settledByEnd(in) == IF in.resolve THEN <<Done>> ELSE <<>>
\* what a next() call settles with at once: the head of the queue, or done;
\* nothing yet if it has to wait
settledByNext(in) ==
  IF in.queue # <<>> THEN <<Head(in.queue)>>
  ELSE IF in.ended THEN <<Done>>
  ELSE <<>>

(***************************************************************************)
(* Session: the message loop.  A message of the query is a record          *)
(* [type, text, subtype, blocks]; a content block is [type, id, name,      *)
(* todos].                                                                 *)
(***************************************************************************)
processBlock(st, block, o) ==
  IF st.thrown THEN st
  ELSE CASE block.type = "tool_use" ->
              LET t == trackToolCall(st, block.id, block.name)
              IN IF block.name = "TodoWrite" /\ block.todos
                 THEN emitEvent(t, Ev("plan_update", <<>>), o)
                 ELSE emitEvent(t, Ev("tool_call", <<block.id, block.name>>), o)
         [] block.type = "tool_result" ->
              LET g == getToolName(st, block.id)
              IN emitEvent(g.st, Ev("tool_result", <<block.id, g.name>>), o)
         [] OTHER -> st

RECURSIVE processBlocks(_, _, _)
processBlocks(st, blocks, o) ==
  IF blocks = <<>> THEN st
  ELSE processBlocks(processBlock(st, Head(blocks), o), Tail(blocks), o)

\* the body of the for-await loop, after the cancelled test
processMessage(st, message, o) ==
  CASE message.type = "stream_event_text" -> bufferTextChunk(st, message.text)
    [] message.type = "stream_event_thinking" ->
         emitEvent(st, Ev("thinking", <<>>), o)
    [] message.type = "assistant" ->
         processBlocks(flushTextBuffer(st, o), message.blocks, o)
    [] message.type = "result" ->
         emitEvent([st EXCEPT !.status = "idle"],
                   Ev("session_ended",
                      IF message.subtype = "success" THEN <<"completed">>
                      ELSE <<"error">>), o)
    [] OTHER -> st

\* the catch handler of startMessageLoop; the loop's promise is settled
startMessageLoopCatch(st, o) ==
  LET e == emitEvent([st EXCEPT !.thrown = FALSE, !.messageLoop = "failed"],
                     Ev("error", <<>>), o)
  IN IF e.thrown THEN e
     ELSE [e EXCEPT !.status = "terminated", !.input = end(@)]

\* one iteration of processMessages, with the catch of startMessageLoop
processMessages(st, message, o, oe) ==
  IF st.cancelled THEN [st EXCEPT !.messageLoop = "ended"]
  ELSE LET p == processMessage(st, message, o)
       IN IF p.thrown THEN startMessageLoopCatch(p, oe) ELSE p

(***************************************************************************)
(* Session: the operations.                                                *)
(***************************************************************************)
sendPrompt(st) ==
  [st EXCEPT !.status = "active", !.cancelled = FALSE,
             !.input = push(@, "prompt")]

sendSlashCommand(st, command, o) ==
  LET a == [st EXCEPT !.status = "active", !.cancelled = FALSE]
      e == IF command = "plan"
           THEN emitEvent([a EXCEPT !.inPlanMode = TRUE],
                          Ev("plan_mode_change", <<"true">>), o)
           ELSE a
  IN IF e.thrown THEN e ELSE [e EXCEPT !.input = push(@, command)]

\* cancel() up to its await of query.interrupt()
cancelBegin(st) == [st EXCEPT !.cancelled = TRUE, !.interrupting = TRUE]

\* a cancel that reports the end but leaves the status alone
cancelResumeKeepsStatus(st, o) ==
  emitEvent([st EXCEPT !.interrupting = FALSE],
            Ev("session_ended", <<"cancelled">>), o)

\* cancel() after query.interrupt() resolved
cancelResume(st, o) ==
  emitEvent([st EXCEPT !.interrupting = FALSE, !.status = "idle"],
            Ev("session_ended", <<"cancelled">>), o)

\* terminate() up to its await of the message loop
terminate(st, o) ==
  LET f == flushTextBuffer([st EXCEPT !.cancelled = TRUE,
                                      !.status = "terminated"], o)
  IN IF f.thrown THEN f
     ELSE [f EXCEPT
             !.pendingTtl = [t \in ToolIds |->
                               IF f.toolCallTimers[t] THEN @[t] - 1 ELSE @[t]],
             !.toolCallNames = [t \in ToolIds |-> "none"],
             !.toolCallTimers = [t \in ToolIds |-> FALSE],
             !.input = end(@)]

\* setPermissionMode() up to its await of query.setPermissionMode()
setPermissionMode(st, mode, o) ==
  LET m == [st EXCEPT !.permissionMode = mode]
  IN IF m.inPlanMode /\ mode # "plan"
     THEN emitEvent([m EXCEPT !.inPlanMode = FALSE],
                    Ev("plan_mode_change", <<"false">>), o)
     ELSE m

\* a handler starts with no event delivered and no exception propagating
Enter(st) == [st EXCEPT !.emitted = <<>>, !.thrown = FALSE]
\* an exception that left the handler is the caller's; the session keeps
\* the state the handler reached
Leave(st) == [st EXCEPT !.thrown = FALSE]


(***************************************************************************)
(* The messages of the query (the agent process is an opaque collaborator: *)
(* any message may come next while the loop runs).                         *)
(***************************************************************************)
TextMsg(f) ==
  [type |-> "stream_event_text", text |-> f, subtype |-> "", blocks |-> <<>>]
ThinkingMsg ==
  [type |-> "stream_event_thinking", text |-> <<>>, subtype |-> "",
   blocks |-> <<>>]
AssistantMsg(blocks) ==
  [type |-> "assistant", text |-> <<>>, subtype |-> "", blocks |-> blocks]
ResultMsg(subtype) ==
  [type |-> "result", text |-> <<>>, subtype |-> subtype, blocks |-> <<>>]
SystemMsg == [type |-> "system", text |-> <<>>, subtype |-> "", blocks |-> <<>>]

ToolUse(id, name, todos) ==
  [type |-> "tool_use", id |-> id, name |-> name, todos |-> todos]
ToolResult(id) ==
  [type |-> "tool_result", id |-> id, name |-> "", todos |-> FALSE]
TextBlock == [type |-> "text", id |-> "", name |-> "", todos |-> FALSE]

ToolBlocks ==
  {ToolUse("t1", "Read", FALSE), ToolUse("t2", "TodoWrite", TRUE)}
    \cup {ToolResult(t) : t \in ToolIds}

\* what each specification lets the process say
LifecycleMsgs ==
  {ResultMsg("success"), ResultMsg("error"), TextMsg(<<"a">>), SystemMsg}
TextMsgs ==
  {TextMsg(f) : f \in Fragments}
    \cup {ThinkingMsg, ResultMsg("success"), AssistantMsg(<<TextBlock>>),
          AssistantMsg(<<ToolUse("t1", "Read", FALSE)>>)}
ToolMsgs == {AssistantMsg(b) : b \in SeqsUpTo(ToolBlocks, MaxBlocks) \ {<<>>}}
CallbackMsgs ==
  {ThinkingMsg, ResultMsg("success"), SystemMsg,
   AssistantMsg(<<ToolUse("t1", "Read", FALSE)>>),
   AssistantMsg(<<ToolResult("t1")>>)}

(***************************************************************************)
(* History kept beside the program's state, to state the claims: the       *)
(* fragments of the open aggregation window, and what became of each       *)
(* tracked tool call.                                                      *)
(***************************************************************************)
NoTool == [state |-> "never", name |-> "none"]

histBlock(h, block) ==
  CASE block.type = "tool_use" ->
         [h EXCEPT ![block.id] = [state |-> "live", name |-> block.name]]
    [] block.type = "tool_result" ->
         [h EXCEPT ![block.id] = [state |-> "consumed", name |-> "none"]]
    [] OTHER -> h

RECURSIVE histBlocks(_, _)
histBlocks(h, blocks) ==
  IF blocks = <<>> THEN h ELSE histBlocks(histBlock(h, Head(blocks)), Tail(blocks))

\* the <<call id, tool name>> each result block of a message must yield
RECURSIVE expectedOf(_, _)
expectedOf(h, blocks) ==
  IF blocks = <<>> THEN <<>>
  ELSE LET b == Head(blocks)
           rest == expectedOf(histBlock(h, b), Tail(blocks))
       IN IF b.type = "tool_result"
          THEN <<(<<b.id, IF h[b.id].state = "live" THEN h[b.id].name
                          ELSE "unknown">>)>> \o rest
          ELSE rest

RECURSIVE Concat(_)
Concat(frags) == IF frags = <<>> THEN <<>> ELSE Head(frags) \o Concat(Tail(frags))

SessHist(s, wf, cw, th, er) ==
  /\ windowFrags' = [windowFrags EXCEPT ![s] = wf]
  /\ closedWindow' = [closedWindow EXCEPT ![s] = cw]
  /\ toolHist' = [toolHist EXCEPT ![s] = th]
  /\ expectedResults' = [expectedResults EXCEPT ![s] = er]

\* a handler that neither flushes nor touches the tool tracking
PlainHist(s) == SessHist(s, windowFrags[s], <<>>, toolHist[s], <<>>)

(***************************************************************************)
(* The bounds, as a guard on the state a handler leaves.                   *)
(***************************************************************************)
Bounded(st) ==
  /\ Len(st.textBuffer) <= MaxText
  /\ st.pendingFlush <= MaxTimers
  /\ \A t \in ToolIds : st.pendingTtl[t] <= MaxTimers
  /\ st.consecutiveCallbackFailures <= MaxFailures
  /\ Len(st.input.queue) <= MaxInput

SetSession(s, st) ==
  /\ Bounded(st)
  /\ session' = [session EXCEPT ![s] = Leave(st)]

(***************************************************************************)
(* Initial states.  StartupInit: a SessionManager just constructed, over   *)
(* what an earlier process left.  Init: a manager over an empty root once  *)
(* initialize() has written its lock file.  SessionInit: the manager after *)
(* two createSession calls completed one after the other.                  *)
(***************************************************************************)

InitCommon ==
  /\ pendingQuestions = {}
  /\ pendingPermissions = {}
  /\ call = [c \in Calls |-> NoCall]
  /\ lastResult = NoResult
  /\ writer = [w \in Writers |-> NoWriter]
  /\ tmpFile = Absent
  /\ session = [i \in Ids |-> NewSession]
  /\ windowFrags = [i \in Ids |-> <<>>]
  /\ closedWindow = [i \in Ids |-> <<>>]
  /\ toolHist = [i \in Ids |-> [t \in ToolIds |-> NoTool]]
  /\ expectedResults = [i \in Ids |-> <<>>]
  /\ doneTerminate = {}
  /\ issuedIds = {}
  /\ timeouts = {}
  /\ completed = {}
  /\ resolveCalls = [k \in CorrIds |-> 0]
  /\ rejectCalls = [k \in CorrIds |-> 0]
  /\ initTodo = {}
  /\ queue = <<>>
  /\ timer = FALSE
  /\ batches = <<>>
  /\ offered = 0
  /\ accepted = {}
  /\ lastCall = [op |-> "none", type |-> "none"]
  /\ shutdownPc = "none"
  /\ cleanupInterval = TRUE
  /\ raceFired = {}
  /\ attempted = {}
  /\ registeredAtShutdown = {}
  /\ shutdownCalls = 0
  /\ shutdownRuns = 0
  /\ sweeps = 0
  /\ lastExpired = {}
  /\ toolResult = [tool |-> "none", input |-> <<>>, cause |-> "none",
                   thrown |-> FALSE, isError |-> FALSE, code |-> "none",
                   results |-> <<>>]
  /\ toolCalls = 0
  /\ batchTerminate = <<>>
  /\ fileAccess = NoAccess
  /\ messageChunks = [i \in Ids |-> <<>>]
  /\ chunkLog = [i \in Ids |-> <<>>]
  /\ readLog = [i \in Ids |-> <<>>]
  /\ lastRead = [sid |-> "none", code |-> "none", chunks |-> <<>>]
  /\ chan = [queue |-> <<>>, resolve |-> FALSE, ended |-> FALSE]
  /\ pushLog = <<>>
  /\ delivered = <<>>

\* what an earlier process can have left under the workspace root
OldDirs == {"o1", "o2"}
OldLocks ==
  {Absent, Torn(2)}
    \cup {PrevRecord(ids, pid) : ids \in {{}, {"o1"}}, pid \in {"dead", "alive"}}

StartupInit ==
  /\ InitCommon
  /\ sessions = {}
  /\ usedIds = {}
  /\ workspaces \in SUBSET OldDirs
  /\ initPc = "start"
  /\ lockFile \in OldLocks
  /\ readLock = Absent
  /\ startDirs = workspaces
  /\ fileRequest = NoRequest

Init ==
  /\ InitCommon
  /\ sessions = {}
  /\ usedIds = {}
  /\ workspaces = {}
  /\ initPc = "done"
  /\ lockFile = LockRecord({})
  /\ readLock = Absent
  /\ startDirs = {}
  /\ fileRequest = NoRequest

TwoSessions ==
  /\ InitCommon
  /\ readLock = Absent
  /\ startDirs = {}
  /\ sessions = {"s1", "s2"}
  /\ usedIds = {"s1", "s2"}
  /\ workspaces = {"s1", "s2"}
  /\ initPc = "done"
  /\ lockFile = LockRecord({"s1", "s2"})

SessionInit == TwoSessions /\ fileRequest = NoRequest
\* the same manager as a workspace file call arrives
FilesInit == TwoSessions /\ fileRequest \in FileRequests


(***************************************************************************)
(* SessionManager: the lock file.  writeLockFile() takes the registry's    *)
(* keys as it is called, then awaits writeFile(tmp) (an open that          *)
(* truncates, a write, a close) and then rename(tmp, lock).  writer[w].fd  *)
(* follows the file the open descriptor refers to: a rename moves the file *)
(* under the descriptors that hold it.                                     *)
(***************************************************************************)
writeLockFile(w, ids) ==
  writer' = [writer EXCEPT ![w] = [pc |-> "open", content |-> ids, fd |-> "none"]]

WriterOpen(w) ==
  /\ writer[w].pc = "open"
  /\ tmpFile' = Empty
  /\ writer' = [writer EXCEPT ![w].pc = "write", ![w].fd = "tmp"]
  /\ lastResult' = NoResult
  /\ UNCHANGED <<mgrVars, lockFile, session, histVars, extVars>>

WriterWrite(w) ==
  /\ writer[w].pc = "write"
  /\ tmpFile' = IF writer[w].fd = "tmp"
                THEN Overlay(tmpFile, LockRecord(writer[w].content))
                ELSE tmpFile
  /\ lockFile' = IF writer[w].fd = "lock"
                 THEN Overlay(lockFile, LockRecord(writer[w].content))
                 ELSE lockFile
  /\ writer' = [writer EXCEPT ![w].pc = "rename", ![w].fd = "none"]
  /\ lastResult' = NoResult
  /\ UNCHANGED <<mgrVars, session, histVars, extVars>>

\* the descriptor of another writer after rename(tmp, lock) succeeded
Renamed(fd) ==
  CASE fd = "tmp" -> "lock"
    [] fd = "lock" -> "orphan"
    [] OTHER -> fd

\* rename, and the return of the call that awaited writeLockFile(); a
\* missing tmp file (ENOENT) is caught and logged
WriterRename(w) ==
  /\ writer[w].pc = "rename"
  /\ IF tmpFile.kind = "absent"
     THEN /\ UNCHANGED <<tmpFile, lockFile>>
          /\ writer' = [writer EXCEPT ![w] = NoWriter]
     ELSE /\ lockFile' = tmpFile
          /\ tmpFile' = Absent
          /\ writer' = [x \in Writers |->
                          IF x = w THEN NoWriter
                          ELSE [writer[x] EXCEPT !.fd = Renamed(@)]]
  /\ IF w = "init"
     THEN /\ initPc' = "done"
          /\ lastResult' = NoResult
          /\ UNCHANGED <<call, doneTerminate>>
     ELSE /\ call' = [call EXCEPT ![w] = NoCall]
          /\ lastResult' = [op |-> call[w].op, sid |-> call[w].sid,
                             res |-> "ok"]
          /\ doneTerminate' = IF call[w].op = "terminate"
                              THEN doneTerminate \cup {call[w].sid}
                              ELSE doneTerminate
          /\ UNCHANGED initPc
  /\ UNCHANGED <<sessions, usedIds, workspaces, pendingQuestions,
                 pendingPermissions, session, windowFrags, closedWindow,
                 toolHist, expectedResults, extVars>>

(***************************************************************************)
(* SessionManager: startup.  initialize() runs unawaited from the          *)
(* constructor: ensureWorkspacesDir, cleanupOrphanedSessions, then         *)
(* writeLockFile.  Each action is initialize() from one await to the next. *)
(* rm({recursive, force}) on a path of the workspace root succeeds.        *)
(***************************************************************************)
initFrame ==
  <<sessions, usedIds, pendingQuestions, pendingPermissions, call, tmpFile,
    lockFile, session, histVars, brokerVars, webhookVars, lateVars,
    startDirs>>

\* cleanupOrphanedSessions has returned: initialize() enters writeLockFile
initWriteLock ==
  /\ initPc' = "lock"
  /\ initTodo' = {}
  /\ writeLockFile("init", sessions)

\* a probe that finds every process alive
isProcessRunningAlways(pid) == TRUE

\* process.kill(pid, 0) of isProcessRunning
isProcessRunning(pid) == pid # "dead"

\* mkdir(workspacesDir) has resolved; readFile(lockFilePath) is issued
EnsureWorkspacesDir ==
  /\ initPc = "start"
  /\ initPc' = "read"
  /\ lastResult' = NoResult
  /\ UNCHANGED <<initFrame, workspaces, writer, initTodo, readLock>>

\* readFile has settled: parse, probe the pid, start the first loop
CleanupOrphanedSessions ==
  /\ initPc = "read"
  /\ IF lockFile.kind # "record" \/ isProcessRunning(lockFile.pid)
     THEN /\ initWriteLock
          /\ UNCHANGED workspaces
     ELSE IF lockFile.ids = {}
     THEN /\ initPc' = "readdir"
          /\ UNCHANGED <<initTodo, writer, workspaces>>
     ELSE /\ initPc' = "rmListed"
          /\ initTodo' = lockFile.ids
          /\ UNCHANGED <<writer, workspaces>>
  /\ readLock' = lockFile
  /\ lastResult' = NoResult
  /\ UNCHANGED initFrame

\* one rm of the loop over lockData.sessionIds has resolved
RemoveListed ==
  /\ initPc = "rmListed"
  /\ LET dir == CHOOSE d \in initTodo : TRUE
     IN /\ workspaces' = workspaces \ {dir}
        /\ initTodo' = initTodo \ {dir}
        /\ initPc' = IF initTodo = {dir} THEN "readdir" ELSE "rmListed"
  /\ lastResult' = NoResult
  /\ UNCHANGED <<initFrame, writer, readLock>>

\* readdir(workspacesDir) has resolved with the directories now present
ScanUnlisted ==
  /\ initPc = "readdir"
  /\ IF workspaces = {}
     THEN initWriteLock
     ELSE /\ initPc' = "rmUnlisted"
          /\ initTodo' = workspaces
          /\ UNCHANGED writer
  /\ lastResult' = NoResult
  /\ UNCHANGED <<initFrame, workspaces, readLock>>

\* one rm of the loop over the readdir entries has resolved
RemoveUnlisted ==
  /\ initPc = "rmUnlisted"
  /\ LET dir == CHOOSE d \in initTodo : TRUE
     IN /\ workspaces' = workspaces \ {dir}
        /\ IF initTodo = {dir}
           THEN initWriteLock
           ELSE /\ initTodo' = initTodo \ {dir}
                /\ UNCHANGED <<initPc, writer>>
  /\ lastResult' = NoResult
  /\ UNCHANGED <<initFrame, readLock>>

(***************************************************************************)
(* SessionManager.createSession.                                           *)
(***************************************************************************)
\* a capacity test that lets one session too many in
atCapacityOffByOne == Cardinality(sessions) > maxSessions

atCapacity == Cardinality(sessions) >= maxSessions

\* up to the await of createSessionWorkspace (mkdir)
CreateSession(c) ==
  /\ call[c].pc = "idle"
  /\ IF atCapacity
     THEN /\ lastResult' = [op |-> "create", sid |-> "none",
                             res |-> "SESSION_LIMIT_REACHED"]
          /\ UNCHANGED <<call, usedIds>>
     ELSE /\ Ids \ usedIds # {}
          /\ LET sid == CHOOSE i \in Ids \ usedIds : TRUE
             IN /\ usedIds' = usedIds \cup {sid}
                /\ call' = [call EXCEPT ![c] =
                     [op |-> "create", sid |-> sid, pc |-> "mkdir"]]
                /\ lastResult' = NoResult
  /\ UNCHANGED <<sessions, workspaces, pendingQuestions, pendingPermissions,
                 initPc, fileVars, session, histVars, extVars>>

\* from the return of mkdir up to the await inside writeLockFile
CreateSessionResume(c) ==
  /\ call[c].pc = "mkdir"
  /\ LET sid == call[c].sid
     IN /\ workspaces' = workspaces \cup {sid}
        /\ session' = [session EXCEPT ![sid] = NewSession]
        /\ sessions' = sessions \cup {sid}
        /\ writeLockFile(c, sessions \cup {sid})
  /\ call' = [call EXCEPT ![c].pc = "lock"]
  /\ lastResult' = NoResult
  /\ UNCHANGED <<usedIds, pendingQuestions, pendingPermissions,
                 initPc, tmpFile, lockFile, histVars, extVars>>

(***************************************************************************)
(* SessionManager.terminateSession.                                        *)
(***************************************************************************)
\* the correlation ids of the entries of a pending map a session owns
ownedBy(pending, sid) == {e.id : e \in {x \in pending : x.sessionId = sid}}

\* a cleanup loop that removes nothing
rejectOwnedNone(pending, sid) == pending

\* a cleanup loop that stops after the first entry of the session
rejectOwnedFirst(pending, sid) ==
  IF ownedBy(pending, sid) = {} THEN pending
  ELSE pending \ {CHOOSE e \in pending : e.sessionId = sid}

\* the cleanup loop of terminateSession over one pending map
rejectOwned(pending, sid) == {e \in pending : e.sessionId # sid}

\* a terminateSession that forgets to drop the registry entry
deleteSessionKeeps(ids, sid) == ids

deleteSession(ids, sid) == ids \ {sid}

\* up to the await of the message loop inside session.terminate()
TerminateSession(c, sid, o) ==
  /\ call[c].pc = "idle"
  /\ IF sid \notin sessions
     THEN /\ lastResult' = [op |-> "terminate", sid |-> sid,
                             res |-> "SESSION_NOT_FOUND"]
          /\ UNCHANGED <<call, session, windowFrags, closedWindow, toolHist,
                         expectedResults>>
     ELSE LET t == terminate(Enter(session[sid]), o)
          IN /\ SetSession(sid, t)
             /\ SessHist(sid, <<>>, windowFrags[sid],
                  [x \in ToolIds |->
                     IF toolHist[sid][x].state = "live"
                     THEN [state |-> "cleared", name |-> "none"]
                     ELSE toolHist[sid][x]], <<>>)
             /\ IF t.thrown
                THEN /\ lastResult' = [op |-> "terminate", sid |-> sid,
                                        res |-> "INTERNAL_ERROR"]
                     /\ UNCHANGED call
                ELSE /\ lastResult' = NoResult
                     /\ call' = [call EXCEPT ![c] =
                          [op |-> "terminate", sid |-> sid, pc |-> "awaitLoop"]]
  /\ UNCHANGED <<sessions, usedIds, workspaces, pendingQuestions,
                 pendingPermissions, initPc, fileVars, doneTerminate,
                 extVars>>

\* from the end of the message loop up to the await inside writeLockFile
TerminateSessionResume(c) ==
  /\ call[c].pc = "awaitLoop"
  /\ session[call[c].sid].messageLoop # "running"
  /\ LET sid == call[c].sid
     IN /\ sessions' = deleteSession(sessions, sid)
        /\ pendingQuestions' = rejectOwned(pendingQuestions, sid)
        /\ pendingPermissions' = rejectOwned(pendingPermissions, sid)
        /\ LET owned == ownedBy(pendingQuestions \cup pendingPermissions, sid)
           IN /\ timeouts' = timeouts \ owned
              /\ rejectCalls' = [k \in CorrIds |->
                   IF k \in owned THEN rejectCalls[k] + 1 ELSE rejectCalls[k]]
        /\ messageChunks' = [messageChunks EXCEPT ![sid] = <<>>]
        /\ writeLockFile(c, deleteSession(sessions, sid))
  /\ call' = [call EXCEPT ![c].pc = "lock"]
  /\ lastResult' = NoResult
  /\ UNCHANGED <<usedIds, workspaces, initPc, tmpFile, lockFile,
                 session, histVars, issuedIds, completed, resolveCalls,
                 startVars, webhookVars, shutdownVars, reaperVars, toolVars,
                 filesVars, chunkHist, chanVars>>

(***************************************************************************)
(* The agent process and the runtime's timers.                             *)
(***************************************************************************)
sessionFrame == <<mgrVars, fileVars, doneTerminate, extVars>>
NoCallEnds == lastResult' = NoResult

\* the query's iterator is done once its input has ended
QueryEnds(s) ==
  /\ s \in usedIds
  /\ session[s].messageLoop = "running"
  /\ session[s].input.ended
  /\ SetSession(s, [Enter(session[s]) EXCEPT !.messageLoop = "ended"])
  /\ PlainHist(s)
  /\ NoCallEnds
  /\ UNCHANGED sessionFrame

\* the query's iterator throws
FatalError(s, oe) ==
  /\ s \in usedIds
  /\ session[s].messageLoop = "running"
  /\ SetSession(s, startMessageLoopCatch(Enter(session[s]), oe))
  /\ PlainHist(s)
  /\ NoCallEnds
  /\ UNCHANGED sessionFrame

\* the query yields a message
ProcessMessage(s, message, o, oe) ==
  /\ s \in usedIds
  /\ session[s].messageLoop = "running"
  /\ SetSession(s, processMessages(Enter(session[s]), message, o, oe))
  /\ IF session[s].cancelled THEN PlainHist(s)
     ELSE CASE message.type = "stream_event_text" ->
                 /\ Len(windowFrags[s]) <= MaxText
                 /\ SessHist(s, Append(windowFrags[s], message.text), <<>>,
                             toolHist[s], <<>>)
            [] message.type = "assistant" ->
                 SessHist(s, <<>>, windowFrags[s],
                          histBlocks(toolHist[s], message.blocks),
                          expectedOf(toolHist[s], message.blocks))
            [] OTHER -> PlainHist(s)
  /\ NoCallEnds
  /\ UNCHANGED sessionFrame

\* the flush timeout of bufferTextChunk fires
FlushTimerFires(s, o) ==
  /\ s \in usedIds
  /\ session[s].pendingFlush > 0
  /\ SetSession(s, flushTimerCallback(Enter(session[s]), o))
  /\ SessHist(s, <<>>, windowFrags[s], toolHist[s], <<>>)
  /\ NoCallEnds
  /\ UNCHANGED sessionFrame

\* a TTL timeout of trackToolCall fires
ToolTimerFires(s, t) ==
  /\ s \in usedIds
  /\ session[s].pendingTtl[t] > 0
  /\ SetSession(s, ttlTimerCallback(Enter(session[s]), t))
  /\ SessHist(s, windowFrags[s], <<>>,
       [toolHist[s] EXCEPT ![t] =
          IF @.state = "live" THEN [state |-> "evicted", name |-> "none"]
          ELSE @], <<>>)
  /\ NoCallEnds
  /\ UNCHANGED sessionFrame

\* the SDK asks the input channel for its next value
SdkReadsInput(s) ==
  /\ s \in usedIds
  /\ ~session[s].input.resolve
  /\ session[s].input.queue # <<>> \/ ~session[s].input.ended
  /\ SetSession(s, [Enter(session[s]) EXCEPT !.input = next(@)])
  /\ PlainHist(s)
  /\ NoCallEnds
  /\ UNCHANGED sessionFrame

(***************************************************************************)
(* SessionManager: the commands that reach a registered Session.           *)
(***************************************************************************)
SendPrompt(s) ==
  /\ s \in sessions
  /\ SetSession(s, sendPrompt(Enter(session[s])))
  /\ PlainHist(s)
  /\ NoCallEnds
  /\ UNCHANGED sessionFrame

SendSlashCommand(s, command, o) ==
  /\ s \in sessions
  /\ SetSession(s, sendSlashCommand(Enter(session[s]), command, o))
  /\ PlainHist(s)
  /\ NoCallEnds
  /\ UNCHANGED sessionFrame

\* cancelPrompt, up to the await of query.interrupt()
CancelPrompt(s) ==
  /\ s \in sessions
  /\ ~session[s].interrupting
  /\ SetSession(s, cancelBegin(Enter(session[s])))
  /\ PlainHist(s)
  /\ NoCallEnds
  /\ UNCHANGED sessionFrame

\* query.interrupt() resolved
CancelResume(s, o) ==
  /\ session[s].interrupting
  /\ SetSession(s, cancelResume(Enter(session[s]), o))
  /\ PlainHist(s)
  /\ NoCallEnds
  /\ UNCHANGED sessionFrame

SetSessionMode(s, mode, o) ==
  /\ s \in sessions
  /\ SetSession(s, setPermissionMode(Enter(session[s]), mode, o))
  /\ PlainHist(s)
  /\ NoCallEnds
  /\ UNCHANGED sessionFrame

(***************************************************************************)
(* SessionManager: the pending-request broker.  A pending map is a set of  *)
(* [id, sessionId]; the expiry timer of an entry and the `completed` flag  *)
(* its closures share are kept per correlation id.  No Session of this     *)
(* repository emits a question or permission_request event: the event is   *)
(* the handler's input, delivered for a session whose loop is running.     *)
(***************************************************************************)
hasEntry(pending, id) == \E e \in pending : e.id = id

\* an answer that leaves the entry in the map
deleteEntryKeeps(pending, id) == pending

\* pendingQuestions.delete(id) of answerQuestion / respondToPermission
deleteEntry(pending, id) == {e \in pending : e.id # id}

\* an expiry that leaves the entry in the map
expireEntryKeeps(pending, id) == pending

\* pendingQuestions.delete(id) of the expiry timer's callback
expireEntry(pending, id) == {e \in pending : e.id # id}

clearTimeout(armed, id) == armed \ {id}

\* handleSessionEvent for a question or a permission_request event
HandleSessionEvent(s, kind) ==
  /\ s \in sessions
  /\ session[s].messageLoop = "running"
  /\ LET pool == IF kind = "question" THEN QuestionIds ELSE PermissionIds
     IN /\ pool \ issuedIds # {}
        /\ LET id == CHOOSE k \in pool \ issuedIds : TRUE
               entry == [id |-> id, sessionId |-> s]
           IN /\ issuedIds' = issuedIds \cup {id}
              /\ timeouts' = timeouts \cup {id}
              /\ IF kind = "question"
                 THEN /\ pendingQuestions' = pendingQuestions \cup {entry}
                      /\ UNCHANGED pendingPermissions
                 ELSE /\ pendingPermissions' = pendingPermissions \cup {entry}
                      /\ UNCHANGED pendingQuestions
  /\ lastResult' = NoResult
  /\ UNCHANGED <<sessions, usedIds, workspaces, call, initPc, fileVars,
                 session, histVars, completed, resolveCalls, rejectCalls,
                 startVars, webhookVars, lateVars>>

\* handleSessionEvent, for a message_chunk event: the content goes to the
\* end of the session's cached chunks (an entry is made if there is none)
ChunkContents == {<<"a">>, <<"b">>}
HandleMessageChunk(s, content) ==
  /\ s \in sessions
  /\ Len(chunkLog[s]) < MaxChunks
  /\ messageChunks' = [messageChunks EXCEPT ![s] = Append(@, content)]
  /\ chunkLog' = [chunkLog EXCEPT ![s] = Append(@, content)]
  /\ lastResult' = NoResult
  /\ UNCHANGED <<mgrVars, fileVars, session, histVars, brokerVars, startVars,
                 webhookVars, shutdownVars, reaperVars, toolVars, filesVars,
                 readLog, lastRead, chanVars>>

\* a read that leaves the cache as it is
takeChunksKeeps(cache, sid) == cache

\* messageChunks.delete(sessionId)
takeChunks(cache, sid) == [cache EXCEPT ![sid] = <<>>]

\* readMessageHistory: synchronous, so one step
ReadMessageHistory(sid) ==
  /\ IF sid \notin sessions
       THEN /\ lastRead' = [sid |-> sid, code |-> "SESSION_NOT_FOUND",
                            chunks |-> <<>>]
            /\ UNCHANGED <<messageChunks, readLog>>
       ELSE /\ lastRead' = [sid |-> sid, code |-> "none",
                            chunks |-> messageChunks[sid]]
            /\ messageChunks' = takeChunks(messageChunks, sid)
            /\ readLog' = [readLog EXCEPT ![sid] = @ \o messageChunks[sid]]
  /\ lastResult' = NoResult
  /\ UNCHANGED <<mgrVars, fileVars, session, histVars, brokerVars, startVars,
                 webhookVars, shutdownVars, reaperVars, toolVars, filesVars,
                 chunkLog, chanVars>>

\* the resolve closure of an entry, called by an answer
resolveEntry(id) ==
  /\ resolveCalls' = [resolveCalls EXCEPT ![id] = @ + 1]
  /\ completed' = completed \cup {id}
  /\ timeouts' = clearTimeout(timeouts, id)

answerQuestion(questionId) ==
  IF ~hasEntry(pendingQuestions, questionId)
  THEN /\ lastResult' = [op |-> "answerQuestion", sid |-> questionId,
                          res |-> "Question not found"]
       /\ UNCHANGED <<pendingQuestions, timeouts, completed, resolveCalls>>
  ELSE /\ resolveEntry(questionId)
       /\ pendingQuestions' = deleteEntry(pendingQuestions, questionId)
       /\ lastResult' = [op |-> "answerQuestion", sid |-> questionId,
                          res |-> "ok"]

AnswerQuestion(questionId) ==
  /\ answerQuestion(questionId)
  /\ UNCHANGED <<sessions, usedIds, workspaces, pendingPermissions, call,
                 initPc, fileVars, session, histVars, issuedIds, rejectCalls,
                 startVars, webhookVars, lateVars>>

respondToPermission(permissionId) ==
  IF ~hasEntry(pendingPermissions, permissionId)
  THEN /\ lastResult' = [op |-> "respondToPermission", sid |-> permissionId,
                          res |-> "Permission request not found"]
       /\ UNCHANGED <<pendingPermissions, timeouts, completed, resolveCalls>>
  ELSE /\ resolveEntry(permissionId)
       /\ pendingPermissions' = deleteEntry(pendingPermissions, permissionId)
       /\ lastResult' = [op |-> "respondToPermission", sid |-> permissionId,
                          res |-> "ok"]

RespondToPermission(permissionId) ==
  /\ respondToPermission(permissionId)
  /\ UNCHANGED <<sessions, usedIds, workspaces, pendingQuestions, call,
                 initPc, fileVars, session, histVars, issuedIds, rejectCalls,
                 startVars, webhookVars, lateVars>>

\* the expiry timer of an entry fires (the 5-minute setTimeout callback)
TimeoutFires(id) ==
  /\ id \in timeouts
  /\ timeouts' = timeouts \ {id}
  /\ IF id \in completed
     THEN UNCHANGED <<completed, pendingQuestions, pendingPermissions,
                      rejectCalls>>
     ELSE /\ completed' = completed \cup {id}
          /\ rejectCalls' =
               IF hasEntry(pendingQuestions \cup pendingPermissions, id)
               THEN [rejectCalls EXCEPT ![id] = @ + 1]
               ELSE rejectCalls
          /\ pendingQuestions' =
               IF id \in QuestionIds THEN expireEntry(pendingQuestions, id)
               ELSE pendingQuestions
          /\ pendingPermissions' =
               IF id \in PermissionIds THEN expireEntry(pendingPermissions, id)
               ELSE pendingPermissions
  /\ lastResult' = NoResult
  /\ UNCHANGED <<sessions, usedIds, workspaces, call, initPc, fileVars,
                 session, histVars, issuedIds, resolveCalls,
                 startVars, webhookVars, lateVars>>

(***************************************************************************)
(* SessionManager.shutdown.  The terminateSession call made for session s  *)
(* runs in the call slot slotOf(s); its race against the 10 s timer is     *)
(* settled once the call has returned or the timer has fired.              *)
(***************************************************************************)
slotOf(sid) == IF sid = "s1" THEN "c1" ELSE "c2"

\* a shutdown() that never finds an earlier promise
shutdownPromiseNever(pc) == FALSE

\* if (this.shutdownPromise)
shutdownPromiseSet(pc) == pc # "none"

\* terminateSession(id) for every id of `ids`, each up to its first await
terminateAll(ids) ==
  /\ \A sid \in ids : Bounded(terminate(Enter(session[sid]), "ok"))
  /\ session' = [s \in DOMAIN session |->
       IF s \in ids THEN Leave(terminate(Enter(session[s]), "ok"))
       ELSE session[s]]
  /\ windowFrags' = [s \in DOMAIN windowFrags |->
       IF s \in ids THEN <<>> ELSE windowFrags[s]]
  /\ closedWindow' = [s \in DOMAIN closedWindow |->
       IF s \in ids THEN windowFrags[s] ELSE closedWindow[s]]
  /\ toolHist' = [s \in DOMAIN toolHist |->
       IF s \in ids
       THEN [x \in ToolIds |->
               IF toolHist[s][x].state = "live"
               THEN [state |-> "cleared", name |-> "none"]
               ELSE toolHist[s][x]]
       ELSE toolHist[s]]
  /\ expectedResults' = [s \in DOMAIN expectedResults |->
       IF s \in ids THEN <<>> ELSE expectedResults[s]]
  /\ call' = [c \in Calls |->
       IF \E sid \in ids : slotOf(sid) = c
       THEN [op |-> "terminate", pc |-> "awaitLoop",
             sid |-> CHOOSE sid \in ids : slotOf(sid) = c]
       ELSE call[c]]

\* the two loops of performShutdown over the pending maps
clearPending ==
  /\ pendingQuestions' = {}
  /\ pendingPermissions' = {}
  /\ LET all == {e.id : e \in pendingQuestions \cup pendingPermissions}
     IN /\ timeouts' = timeouts \ all
        /\ rejectCalls' = [k \in CorrIds |->
             IF k \in all THEN rejectCalls[k] + 1 ELSE rejectCalls[k]]

settled(sid) == sid \in doneTerminate \/ sid \in raceFired

\* shutdown(), and performShutdown() up to its await of Promise.all
Shutdown ==
  /\ shutdownCalls < MaxShutdownCalls
  /\ shutdownCalls' = shutdownCalls + 1
  /\ lastResult' = NoResult
  /\ IF shutdownPromiseSet(shutdownPc)
     THEN UNCHANGED <<shutdownPc, cleanupInterval, attempted,
                      registeredAtShutdown, shutdownRuns, session, call,
                      windowFrags, closedWindow, toolHist, expectedResults>>
     ELSE /\ \A sid \in sessions : call[slotOf(sid)].pc = "idle"
          /\ shutdownPc' = "terminating"
          /\ cleanupInterval' = FALSE
          /\ shutdownRuns' = shutdownRuns + 1
          /\ registeredAtShutdown' = sessions
          /\ attempted' = attempted \cup sessions
          /\ terminateAll(sessions)
  /\ UNCHANGED <<sessions, usedIds, workspaces, pendingQuestions,
                 pendingPermissions, initPc, fileVars, doneTerminate,
                 brokerVars, startVars, webhookVars, raceFired, reaperVars,
                 moreVars>>

\* the 10 s timer of one race fires before its terminateSession returned
RaceTimerFires(sid) ==
  /\ shutdownPc = "terminating"
  /\ sid \in attempted
  /\ ~settled(sid)
  /\ raceFired' = raceFired \cup {sid}
  /\ lastResult' = NoResult
  /\ UNCHANGED <<mgrVars, fileVars, session, histVars, brokerVars, startVars,
                 webhookVars, shutdownPc, cleanupInterval, attempted,
                 registeredAtShutdown, shutdownCalls, shutdownRuns, reaperVars,
                 moreVars>>

\* Promise.all has resolved: clear the pending maps, issue the unlink
ShutdownClear ==
  /\ shutdownPc = "terminating"
  /\ \A sid \in registeredAtShutdown : settled(sid)
  /\ clearPending
  /\ shutdownPc' = "unlink"
  /\ lastResult' = NoResult
  /\ UNCHANGED <<sessions, usedIds, workspaces, call, initPc, fileVars,
                 session, histVars, issuedIds, completed, resolveCalls,
                 startVars, webhookVars, cleanupInterval, raceFired,
                 attempted, registeredAtShutdown, shutdownCalls, shutdownRuns, reaperVars,
                 moreVars>>

\* unlink(lockFilePath) has settled: performShutdown returns
ShutdownUnlinked ==
  /\ shutdownPc = "unlink"
  /\ lockFile' = Absent
  /\ writer' = [x \in Writers |->
       [writer[x] EXCEPT !.fd = IF @ = "lock" THEN "orphan" ELSE @]]
  /\ shutdownPc' = "done"
  /\ lastResult' = [op |-> "shutdown", sid |-> "none", res |-> "ok"]
  /\ UNCHANGED <<mgrVars, tmpFile, session, histVars, brokerVars, startVars,
                 webhookVars, cleanupInterval, raceFired, attempted,
                 registeredAtShutdown, shutdownCalls, shutdownRuns, reaperVars,
                 moreVars>>

(***************************************************************************)
(* SessionManager: the idle reaper.  `expired` is the set of sessions      *)
(* whose now - lastActivityAt exceeds sessionTimeoutMs as the sweep runs.  *)
(* The 10 s timer raced against each termination only logs when it fires.  *)
(***************************************************************************)
\* a test that ignores the status
isStaleAnyStatus(st, idleTooLong) == idleTooLong

\* idleTime > this.config.sessionTimeoutMs && session.status === 'idle'
isStale(st, idleTooLong) == idleTooLong /\ st.status = "idle"

\* one run of the setInterval callback
CleanupStaleSessions(expired) ==
  /\ cleanupInterval
  /\ sweeps < MaxSweeps
  /\ sweeps' = sweeps + 1
  /\ lastExpired' = expired
  /\ LET stale == {s \in sessions : isStale(session[s], s \in expired)}
     IN /\ \A sid \in stale : call[slotOf(sid)].pc = "idle"
        /\ terminateAll(stale)
  /\ lastResult' = NoResult
  /\ UNCHANGED <<sessions, usedIds, workspaces, pendingQuestions,
                 pendingPermissions, initPc, fileVars, doneTerminate,
                 brokerVars, startVars, webhookVars, shutdownVars, moreVars>>

(***************************************************************************)
(* The command handlers.  What the wrapped function does is a record:      *)
(* kind "return" (with the items of a batch), "AppError" (with its code),  *)
(* "Error" or "other" (a thrown value that is no Error).                   *)
(***************************************************************************)
Returns(results) == [kind |-> "return", code |-> "none", results |-> results]
Throws(kind, code) == [kind |-> kind, code |-> code, results |-> <<>>]

ok(results) ==
  [thrown |-> FALSE, isError |-> FALSE, code |-> "none", results |-> results]
err(code) ==
  [thrown |-> FALSE, isError |-> TRUE, code |-> code, results |-> <<>>]

isAppError(out) == out.kind = "AppError"

\* a wrapper that lets what is no application error through
wrapHandlerRethrows(out) ==
  IF out.kind = "return" THEN ok(out.results)
  ELSE IF isAppError(out) THEN err(out.code)
  ELSE [thrown |-> TRUE, isError |-> FALSE, code |-> "none", results |-> <<>>]

wrapHandler(out) ==
  IF out.kind = "return" THEN ok(out.results)
  ELSE IF isAppError(out) THEN err(out.code)
  ELSE err("INTERNAL_ERROR")

\* the handler's result, kept with the tool, its input and the cause
Handled(tool, input, out) ==
  /\ toolCalls < MaxToolCalls
  /\ toolCalls' = toolCalls + 1
  /\ toolResult' =
       [tool |-> tool, input |-> input, cause |-> out.kind]
         @@ wrapHandler(out)

\* send_slash_command
ToolSendSlashCommand(sid, command, o) ==
  /\ IF sid \notin sessions
     THEN /\ Handled("send_slash_command", <<sid>>,
                     Throws("AppError", "SESSION_NOT_FOUND"))
          /\ UNCHANGED <<session, histVars>>
     ELSE LET st == sendSlashCommand(Enter(session[sid]), command, o)
          IN /\ SetSession(sid, st)
             /\ PlainHist(sid)
             /\ UNCHANGED doneTerminate
             /\ Handled("send_slash_command", <<sid>>,
                        IF st.thrown THEN Throws("Error", "none")
                        ELSE Returns(<<>>))
  /\ lastResult' = NoResult
  /\ UNCHANGED <<sessions, usedIds, workspaces, initPc, fileVars, call,
                 pendingQuestions, pendingPermissions, brokerVars, startVars,
                 webhookVars, shutdownVars, reaperVars, batchTerminate,
                 restVars>>

\* answer_question
ToolAnswerQuestion(questionId) ==
  /\ answerQuestion(questionId)
  /\ Handled("answer_question", <<questionId>>,
             IF hasEntry(pendingQuestions, questionId) THEN Returns(<<>>)
             ELSE Throws("AppError", "SESSION_STATE_ERROR"))
  /\ UNCHANGED <<sessions, usedIds, workspaces, initPc, fileVars, call,
                 pendingPermissions, session, histVars, issuedIds,
                 rejectCalls, startVars, webhookVars, shutdownVars,
                 reaperVars, batchTerminate,
                 restVars>>

\* answer_question with its whole input: the session id that comes with the
\* command goes to the log line and to the reply, not to answerQuestion
AnswerQuestionTool(sessionId, questionId) ==
  /\ answerQuestion(questionId)
  /\ Handled("answer_question", <<sessionId, questionId>>,
             IF hasEntry(pendingQuestions, questionId) THEN Returns(<<>>)
             ELSE Throws("AppError", "SESSION_STATE_ERROR"))
  /\ UNCHANGED <<sessions, usedIds, workspaces, initPc, fileVars, call,
                 pendingPermissions, session, histVars, issuedIds,
                 rejectCalls, startVars, webhookVars, shutdownVars,
                 reaperVars, batchTerminate,
                 restVars>>

\* respond_to_permission with its whole input
RespondToPermissionTool(sessionId, permissionId) ==
  /\ respondToPermission(permissionId)
  /\ Handled("respond_to_permission", <<sessionId, permissionId>>,
             IF hasEntry(pendingPermissions, permissionId) THEN Returns(<<>>)
             ELSE Throws("AppError", "SESSION_STATE_ERROR"))
  /\ UNCHANGED <<sessions, usedIds, workspaces, initPc, fileVars, call,
                 pendingQuestions, session, histVars, issuedIds,
                 rejectCalls, startVars, webhookVars, shutdownVars,
                 reaperVars, batchTerminate,
                 restVars>>

\* the item of a batch result for one session id
Item(sid, status) == [sessionId |-> sid, status |-> status]
items(ids, done) ==
  [k \in 1..Len(ids) |->
     Item(ids[k], IF ids[k] \in sessions THEN done ELSE "error")]

\* batch_send_prompts: every item runs up to its await in the one tick
BatchSendPrompts(ids) ==
  /\ LET known == {ids[k] : k \in 1..Len(ids)} \cap sessions
     IN /\ \A sid \in known : Bounded(sendPrompt(Enter(session[sid])))
        /\ session' = [s \in DOMAIN session |->
             IF s \in known THEN Leave(sendPrompt(Enter(session[s])))
             ELSE session[s]]
        /\ closedWindow' = [s \in DOMAIN closedWindow |->
             IF s \in known THEN <<>> ELSE closedWindow[s]]
        /\ expectedResults' = [s \in DOMAIN expectedResults |->
             IF s \in known THEN <<>> ELSE expectedResults[s]]
  /\ Handled("batch_send_prompts", ids, Returns(items(ids, "prompt_sent")))
  /\ lastResult' = NoResult
  /\ UNCHANGED <<sessions, usedIds, workspaces, initPc, fileVars, call,
                 pendingQuestions, pendingPermissions, windowFrags, toolHist,
                 doneTerminate, brokerVars, startVars, webhookVars,
                 shutdownVars, reaperVars, batchTerminate,
                 restVars>>

\* batch_terminate_sessions, every item up to its first await; with no
\* registered id among them the handler returns at once
BatchTerminateSessions(ids) ==
  /\ batchTerminate = <<>>
  /\ toolCalls < MaxToolCalls
  /\ LET known == {ids[k] : k \in 1..Len(ids)} \cap sessions
     IN /\ \A sid \in known : call[slotOf(sid)].pc = "idle"
        /\ terminateAll(known)
        /\ IF known = {}
           THEN /\ Handled("batch_terminate_sessions", ids,
                           Returns(items(ids, "terminated")))
                /\ UNCHANGED batchTerminate
           ELSE /\ batchTerminate' = items(ids, "terminated")
                /\ UNCHANGED <<toolResult, toolCalls>>
  /\ lastResult' = NoResult
  /\ UNCHANGED <<sessions, usedIds, workspaces, initPc, fileVars,
                 pendingQuestions, pendingPermissions, doneTerminate,
                 brokerVars, startVars, webhookVars, shutdownVars, reaperVars,
                 restVars>>

\* Promise.all of batch_terminate_sessions has resolved
BatchTerminateReturns ==
  /\ batchTerminate # <<>>
  /\ \A k \in 1..Len(batchTerminate) :
       batchTerminate[k].status = "terminated"
         => batchTerminate[k].sessionId \in doneTerminate
  /\ Handled("batch_terminate_sessions",
             [k \in 1..Len(batchTerminate) |-> batchTerminate[k].sessionId],
             Returns(batchTerminate))
  /\ batchTerminate' = <<>>
  /\ lastResult' = NoResult
  /\ UNCHANGED <<mgrVars, fileVars, session, histVars, brokerVars, startVars,
                 webhookVars, shutdownVars, reaperVars,
                 restVars>>

(***************************************************************************)
(* PokeWebhookSender: filter, queue, flush timer, delivery with retry.     *)
(* A payload is the queueEvent call's number and the event's type.         *)
(***************************************************************************)
EventTypes ==
  {"message_chunk", "thinking", "tool_call", "tool_result", "plan_update",
   "plan_mode_change", "question", "permission_request", "session_ended",
   "error"}

\* a filter that lets every event through
isRelevantForPokeAll(type) == TRUE

isRelevantForPoke(type) ==
  type \in {"question", "permission_request", "plan_mode_change",
            "session_ended", "error"}

eventToPayload(n, type) == [n |-> n, type |-> type]

maxRetries == 3
backoffMs(attempt) == 2 ^ attempt * 100

\* what a pool.request of sendToPoke can come back with: a status of the
\* three classes the code tells apart, or an exception
Responses == {"2xx", "4xx", "5xx", "throw"}

\* a splice that takes the first payload only
spliceHead(q) == [removed |-> <<Head(q)>>, rest |-> Tail(q)]

\* a splice that copies the queue
spliceCopy(q) == [removed |-> q, rest |-> q]

\* this.queue.splice(0)
splice(q) == [removed |-> q, rest |-> <<>>]

\* sendToPoke up to the await of its first pool.request
sendToPoke(updates) ==
  [updates |-> updates, attempt |-> 0, pc |-> "request", requests |-> 1,
   responses |-> <<>>, delays |-> <<>>, result |-> "none"]

\* a flush that hands the queue over and leaves the timer field as it is
flushLeavesTimer ==
  /\ UNCHANGED timer
  /\ IF queue = <<>>
     THEN UNCHANGED <<queue, batches>>
     ELSE /\ queue' = <<>>
          /\ batches' = Append(batches, [updates |-> queue, attempt |-> 0,
                                          pc |-> "request", requests |-> 1,
                                          responses |-> <<>>, delays |-> <<>>,
                                          result |-> "none"])

flush ==
  /\ timer' = FALSE
  /\ IF queue = <<>>
     THEN UNCHANGED <<queue, batches>>
     ELSE /\ queue' = splice(queue).rest
          /\ batches' = Append(batches, sendToPoke(splice(queue).removed))

webhookFrame ==
  <<mgrVars, lastResult, fileVars, session, histVars, brokerVars, startVars,
    lateVars>>

QueueEvent(type) ==
  /\ offered < MaxEvents
  /\ offered' = offered + 1
  /\ lastCall' = [op |-> "queueEvent", type |-> type]
  /\ IF ~isRelevantForPoke(type)
     THEN UNCHANGED <<queue, timer, accepted>>
     ELSE /\ queue' = Append(queue, eventToPayload(offered + 1, type))
          /\ accepted' = accepted \cup {offered + 1}
          /\ timer' = TRUE
  /\ UNCHANGED <<batches, webhookFrame>>

\* the batch timer's callback: () => this.flush()
FlushTimerCallback ==
  /\ timer
  /\ flush
  /\ lastCall' = [op |-> "timer", type |-> "none"]
  /\ UNCHANGED <<offered, accepted, webhookFrame>>

\* flush() called directly (shutdown)
Flush ==
  /\ flush
  /\ lastCall' = [op |-> "flush", type |-> "none"]
  /\ UNCHANGED <<offered, accepted, webhookFrame>>

\* sendToPoke from the settling of a request to its next await or its return
afterResponse(b, r) ==
  LET responses == Append(b.responses, r)
  IN IF r = "2xx"
     THEN [b EXCEPT !.responses = responses, !.pc = "done", !.result = "sent"]
     ELSE IF r = "4xx"
     THEN [b EXCEPT !.responses = responses, !.pc = "done",
                    !.result = "rejected"]
     ELSE IF b.attempt < maxRetries - 1
     THEN [b EXCEPT !.responses = responses, !.pc = "sleep",
                    !.delays = Append(@, backoffMs(b.attempt))]
     ELSE [b EXCEPT !.responses = responses, !.pc = "done",
                    !.result = "dropped"]

Response(i, r) ==
  /\ i \in 1..Len(batches)
  /\ batches[i].pc = "request"
  /\ batches' = [batches EXCEPT ![i] = afterResponse(@, r)]
  /\ lastCall' = [op |-> "response", type |-> "none"]
  /\ UNCHANGED <<queue, timer, offered, accepted, webhookFrame>>

\* the backoff sleep is over: the loop's next attempt issues its request
SleepEnds(i) ==
  /\ i \in 1..Len(batches)
  /\ batches[i].pc = "sleep"
  /\ batches' = [batches EXCEPT ![i] =
       [@ EXCEPT !.attempt = @ + 1, !.pc = "request", !.requests = @ + 1]]
  /\ lastCall' = [op |-> "sleep", type |-> "none"]
  /\ UNCHANGED <<queue, timer, offered, accepted, webhookFrame>>

(***************************************************************************)
(* Specifications.                                                         *)
(***************************************************************************)
\* the manager: concurrent createSession and terminateSession calls
Next ==
  \/ \E c \in Calls : CreateSession(c)
  \/ \E c \in Calls : CreateSessionResume(c)
  \/ \E c \in Calls, sid \in Ids : TerminateSession(c, sid, "ok")
  \/ \E c \in Calls : TerminateSessionResume(c)
  \/ \E w \in Writers : WriterOpen(w)
  \/ \E w \in Writers : WriterWrite(w)
  \/ \E w \in Writers : WriterRename(w)
  \/ \E s \in Ids : QueryEnds(s)

Spec == Init /\ [][Next]_vars

\* startup: initialize() still running while a command arrives
StartupNext ==
  \/ EnsureWorkspacesDir
  \/ CleanupOrphanedSessions
  \/ RemoveListed
  \/ ScanUnlisted
  \/ RemoveUnlisted
  \/ CreateSession("c1")
  \/ CreateSessionResume("c1")
  \/ \E sid \in Ids : TerminateSession("c1", sid, "ok")
  \/ TerminateSessionResume("c1")
  \/ \E w \in {"c1", "init"} : WriterOpen(w)
  \/ \E w \in {"c1", "init"} : WriterWrite(w)
  \/ \E w \in {"c1", "init"} : WriterRename(w)
  \/ \E s \in Ids : QueryEnds(s)

StartupSpec == StartupInit /\ [][StartupNext]_vars

\* the life of a registered session; the event callback returns normally
Commands == {"plan", "compact"}
Modes == {"plan", "default"}

\* a test of the plan-mode flag that always passes
inPlanModeAlways(st) == TRUE

\* session.inPlanMode, as modifyPlan reads it
inPlanMode(st) == st.inPlanMode

\* modifyPlan: synchronous up to the end of session.sendPrompt
ModifyPlan(sid) ==
  /\ IF sid \notin sessions
       THEN /\ lastResult' = [op |-> "modifyPlan", sid |-> sid,
                              res |-> "SESSION_NOT_FOUND"]
            /\ UNCHANGED <<session, windowFrags, closedWindow, toolHist,
                           expectedResults>>
       ELSE IF ~inPlanMode(session[sid])
       THEN /\ lastResult' = [op |-> "modifyPlan", sid |-> sid,
                              res |-> "SESSION_STATE_ERROR"]
            /\ UNCHANGED <<session, windowFrags, closedWindow, toolHist,
                           expectedResults>>
       ELSE /\ SetSession(sid, sendPrompt(Enter(session[sid])))
            /\ PlainHist(sid)
            /\ lastResult' = [op |-> "modifyPlan", sid |-> sid, res |-> "ok"]
  /\ UNCHANGED sessionFrame

\* approvePlan: session.setPermissionMode('bypassPermissions') up to its
\* await of query.setPermissionMode, whose outcome `q` is approvePlan's
ApprovePlan(sid, o, q) ==
  /\ IF sid \notin sessions
       THEN /\ lastResult' = [op |-> "approvePlan", sid |-> sid,
                              res |-> "SESSION_NOT_FOUND"]
            /\ UNCHANGED <<session, windowFrags, closedWindow, toolHist,
                           expectedResults>>
       ELSE /\ SetSession(sid, setPermissionMode(Enter(session[sid]),
                                                 "bypassPermissions", o))
            /\ PlainHist(sid)
            /\ lastResult' = [op |-> "approvePlan", sid |-> sid,
                              res |-> IF q = "ok" THEN "ok" ELSE "Error"]
  /\ UNCHANGED sessionFrame

SessionNext ==
  \/ \E m \in LifecycleMsgs : ProcessMessage("s1", m, "ok", "ok")
  \/ FatalError("s1", "ok")
  \/ FlushTimerFires("s1", "ok")
  \/ SdkReadsInput("s1")
  \/ QueryEnds("s1")
  \/ SendPrompt("s1")
  \/ \E command \in Commands : SendSlashCommand("s1", command, "ok")
  \/ CancelPrompt("s1")
  \/ CancelResume("s1", "ok")
  \/ \E mode \in Modes : SetSessionMode("s1", mode, "ok")
  \/ \E sid \in Ids : TerminateSession("c1", sid, "ok")
  \/ TerminateSessionResume("c1")
  \/ WriterOpen("c1")
  \/ WriterWrite("c1")
  \/ WriterRename("c1")

SessionSpec == SessionInit /\ [][SessionNext]_vars

\* text aggregation in one session; the event callback returns normally
TextNext ==
  \/ \E m \in TextMsgs : ProcessMessage("s1", m, "ok", "ok")
  \/ FlushTimerFires("s1", "ok")
  \/ SendPrompt("s1")
  \/ SdkReadsInput("s1")
  \/ CancelPrompt("s1")
  \/ CancelResume("s1", "ok")
  \/ TerminateSession("c1", "s1", "ok")

TextSpec == SessionInit /\ [][TextNext]_vars

\* tool correlation in one session; the event callback returns normally
ToolNext ==
  \/ \E m \in ToolMsgs : ProcessMessage("s1", m, "ok", "ok")
  \/ \E t \in ToolIds : ToolTimerFires("s1", t)
  \/ SendPrompt("s1")
  \/ SdkReadsInput("s1")
  \/ TerminateSession("c1", "s1", "ok")

ToolSpec == SessionInit /\ [][ToolNext]_vars

\* a session whose event callback may fail, beside an idle one
Outcomes == {"ok", "reject", "throw"}

CallbackNext ==
  \/ \E m \in CallbackMsgs, o \in Outcomes, oe \in Outcomes :
        ProcessMessage("s1", m, o, oe)
  \/ \E oe \in Outcomes : FatalError("s1", oe)
  \/ \E s \in Ids : SendPrompt(s)
  \/ \E s \in Ids : SdkReadsInput(s)

CallbackSpec == SessionInit /\ [][CallbackNext]_vars

\* the pending-request broker beside terminateSession
EventKinds == {"question", "permission_request"}

BrokerNext ==
  \/ \E s \in Ids, kind \in EventKinds : HandleSessionEvent(s, kind)
  \/ \E q \in QuestionIds : AnswerQuestion(q)
  \/ \E p \in PermissionIds : RespondToPermission(p)
  \/ \E k \in CorrIds : TimeoutFires(k)
  \/ \E sid \in Ids : TerminateSession("c1", sid, "ok")
  \/ \E s \in Ids : QueryEnds(s)
  \/ TerminateSessionResume("c1")
  \/ WriterOpen("c1")
  \/ WriterWrite("c1")
  \/ WriterRename("c1")

BrokerSpec == SessionInit /\ [][BrokerNext]_vars

\* the webhook sender offered events of every type; Poke answers 2xx
FilterNext ==
  \/ \E type \in EventTypes : QueueEvent(type)
  \/ FlushTimerCallback
  \/ Flush
  \/ \E i \in 1..MaxEvents : Response(i, "2xx")

FilterSpec == Init /\ [][FilterNext]_vars

\* the webhook sender and a Poke endpoint that answers anything
DeliveryTypes == {"question", "tool_call"}

DeliveryNext ==
  \/ \E type \in DeliveryTypes : QueueEvent(type)
  \/ FlushTimerCallback
  \/ Flush
  \/ \E i \in 1..MaxEvents, r \in Responses : Response(i, r)
  \/ \E i \in 1..MaxEvents : SleepEnds(i)

DeliverySpec == Init /\ [][DeliveryNext]_vars

\* shutdown of a manager with two sessions and pending requests
ShutdownNext ==
  \/ Shutdown
  \/ \E sid \in Ids : RaceTimerFires(sid)
  \/ ShutdownClear
  \/ ShutdownUnlinked
  \/ \E s \in {"s1", "s2"}, kind \in EventKinds : HandleSessionEvent(s, kind)
  \/ \E id \in CorrIds : TimeoutFires(id)
  \/ \E s \in Ids : QueryEnds(s)
  \/ \E c \in Calls : TerminateSessionResume(c)
  \/ \E c \in Calls : WriterOpen(c)
  \/ \E c \in Calls : WriterWrite(c)
  \/ \E c \in Calls : WriterRename(c)

ShutdownSpec == SessionInit /\ [][ShutdownNext]_vars

\* the idle reaper over two sessions that work and rest
ReaperNext ==
  \/ \E expired \in SUBSET {"s1", "s2"} : CleanupStaleSessions(expired)
  \/ \E s \in {"s1", "s2"} : SendPrompt(s)
  \/ \E s \in {"s1", "s2"} : SdkReadsInput(s)
  \/ \E s \in {"s1", "s2"} : ProcessMessage(s, ResultMsg("success"), "ok", "ok")
  \/ \E s \in {"s1", "s2"} : QueryEnds(s)
  \/ \E c \in Calls : TerminateSessionResume(c)
  \/ \E c \in Calls : WriterOpen(c)
  \/ \E c \in Calls : WriterWrite(c)
  \/ \E c \in Calls : WriterRename(c)

ReaperSpec == SessionInit /\ [][ReaperNext]_vars

\* the reaper over sessions whose message loop can fail: no client call is
\* made, every session has been without activity for longer than the
\* timeout at each sweep, the interval keeps firing and file-system requests
\* and the end of a closed query's loop come about
FailedSweep == CleanupStaleSessions({"s1", "s2"})
FailedSteps ==
  \/ \E s \in {"s1", "s2"} : QueryEnds(s)
  \/ \E c \in Calls : TerminateSessionResume(c)
  \/ \E c \in Calls : WriterOpen(c)
  \/ \E c \in Calls : WriterWrite(c)
  \/ \E c \in Calls : WriterRename(c)
FailedNext ==
  \/ \E s \in {"s1", "s2"} : FatalError(s, "ok")
  \/ \E s \in {"s1", "s2"} : SdkReadsInput(s)
  \/ \E s \in {"s1", "s2"}, m \in LifecycleMsgs :
       ProcessMessage(s, m, "ok", "ok")
  \/ \E s \in {"s1", "s2"} : FlushTimerFires(s, "ok")
  \/ FailedSweep
  \/ FailedSteps

FailedSpec ==
  /\ SessionInit
  /\ [][FailedNext]_vars
  /\ WF_vars(FailedSweep)
  /\ WF_vars(FailedSteps)

\* the command handlers over two registered sessions and an unknown id
BatchInputs == {<<"s3">>, <<"s1", "s2">>, <<"s3", "s2">>}

HandlerNext ==
  \/ \E sid \in {"s1", "s3"}, o \in {"ok", "throw"} :
       ToolSendSlashCommand(sid, "plan", o)
  \/ ToolAnswerQuestion("q1")
  \/ HandleSessionEvent("s1", "question")
  \/ \E ids \in BatchInputs : BatchSendPrompts(ids)
  \/ \E ids \in BatchInputs : BatchTerminateSessions(ids)
  \/ BatchTerminateReturns
  \/ \E s \in {"s1", "s2"} : SdkReadsInput(s)
  \/ \E s \in {"s1", "s2"} : QueryEnds(s)
  \/ \E c \in Calls : TerminateSessionResume(c)
  \/ \E c \in Calls : WriterOpen(c)
  \/ \E c \in Calls : WriterWrite(c)
  \/ \E c \in Calls : WriterRename(c)

HandlerSpec == SessionInit /\ [][HandlerNext]_vars

\* the answer commands, named with a registered session's id or an unknown
\* one, beside the events that make the entries and the expiry timers
CommandIds == {"s1", "s2", "s3"}

AnswerNext ==
  \/ \E s \in {"s1", "s2"}, kind \in EventKinds : HandleSessionEvent(s, kind)
  \/ \E sid \in CommandIds, q \in QuestionIds : AnswerQuestionTool(sid, q)
  \/ \E sid \in CommandIds, p \in PermissionIds : RespondToPermissionTool(sid, p)
  \/ \E k \in CorrIds : TimeoutFires(k)

AnswerSpec == SessionInit /\ [][AnswerNext]_vars

\* a pushable with one producer and one consumer; the values pushed are
\* numbered to tell them apart
chanFrame ==
  <<mgrVars, lastResult, fileVars, session, histVars, brokerVars, startVars,
    webhookVars, shutdownVars, reaperVars, toolVars, filesVars, messageChunks,
    chunkHist>>

\* the consumer's last next() settled with done
consumerDone ==
  IF delivered = <<>> THEN FALSE ELSE delivered[Len(delivered)] = Done

ChanPush ==
  /\ Len(pushLog) < MaxPushes
  /\ LET value == Len(pushLog) + 1
     IN /\ chan' = push(chan, value)
        /\ delivered' = delivered \o settledByPush(chan, value)
        /\ pushLog' = Append(pushLog, [value |-> value, afterEnd |-> chan.ended])
  /\ UNCHANGED chanFrame

ChanEnd ==
  /\ chan' = end(chan)
  /\ delivered' = delivered \o settledByEnd(chan)
  /\ UNCHANGED <<pushLog, chanFrame>>

\* the consumer (a for await loop) calls next() when its last call has
\* settled, and no more once one settled with done
ChanNext ==
  /\ ~chan.resolve
  /\ ~consumerDone
  /\ chan' = next(chan)
  /\ delivered' = delivered \o settledByNext(chan)
  /\ UNCHANGED <<pushLog, chanFrame>>

PushableNext == ChanPush \/ ChanEnd \/ ChanNext

PushableSpec == Init /\ [][PushableNext]_vars

\* the workspace readers called with one request, whatever it is
FilesNext ==
  \/ \E exists \in BOOLEAN : ReadSessionFile(exists)
  \/ \E exists \in BOOLEAN : ListSessionFiles(exists)
  \/ \E exists \in BOOLEAN : GetSessionFileInfo(exists)

FilesSpec == FilesInit /\ [][FilesNext]_vars

\* the chunk cache: two sessions emit chunks, any id is read, and s1 is
\* terminated meanwhile
ChunkNext ==
  \/ HandleMessageChunk("s1", <<"a">>)
  \/ \E content \in ChunkContents : HandleMessageChunk("s2", content)
  \/ \E sid \in Ids : ReadMessageHistory(sid)
  \/ TerminateSession("c1", "s1", "ok")
  \/ QueryEnds("s1")
  \/ TerminateSessionResume("c1")
  \/ WriterOpen("c1")
  \/ WriterWrite("c1")
  \/ WriterRename("c1")

ChunkSpec == SessionInit /\ [][ChunkNext]_vars

\* plan mode: s1 enters it, its plan is modified and approved, its mode is
\* set, and it works and ends meanwhile; s3 is no session
PlanNext ==
  \/ SendSlashCommand("s1", "plan", "ok")
  \/ \E sid \in {"s1", "s3"} : ModifyPlan(sid)
  \/ \E sid \in {"s1", "s3"}, q \in {"ok", "reject"} :
       ApprovePlan(sid, "ok", q)
  \/ \E mode \in Modes : SetSessionMode("s1", mode, "ok")
  \/ \E m \in LifecycleMsgs : ProcessMessage("s1", m, "ok", "ok")
  \/ SdkReadsInput("s1")
  \/ FlushTimerFires("s1", "ok")
  \/ TerminateSession("c1", "s1", "ok")
  \/ QueryEnds("s1")

PlanSpec == SessionInit /\ [][PlanNext]_vars

(***************************************************************************)
(* Properties of the manager.                                              *)
(***************************************************************************)
quiescent ==
  /\ \A c \in Calls : call[c].pc = "idle"
  /\ \A w \in Writers : writer[w].pc = "none"

\* C1: once a createSession or terminateSession call has completed and no
\* other call is still in flight, the session ids in the lock file are the
\* ids in the registry.
C1_LockMirrorsRegistry ==
  (quiescent /\ lastResult.res = "ok") => lockFile = LockRecord(sessions)

\* C2: the registry never holds more than maxSessions sessions.
C2_RegistryWithinCapacity == Cardinality(sessions) <= maxSessions

\* C3: a createSession call made while the registry holds maxSessions
\* sessions (or more) ends with SESSION_LIMIT_REACHED, and the registry,
\* both pending-request maps and the lock file are as they were.
C3_CapacityErrorChangesNothing ==
  [][\A c \in Calls :
       (CreateSession(c) /\ Cardinality(sessions) >= maxSessions) =>
         /\ lastResult'.op = "create"
         /\ lastResult'.res = "SESSION_LIMIT_REACHED"
         /\ UNCHANGED <<sessions, pendingQuestions, pendingPermissions,
                         lockFile, tmpFile, writer, call, workspaces>>]_vars

C3_Witness ==
  /\ lastResult.op = "create"
  /\ lastResult.res = "SESSION_LIMIT_REACHED"
  /\ Cardinality(sessions) = maxSessions
  /\ lockFile.kind = "record"

C5_TerminatedIsAbsorbing ==
  [][\A s \in Ids : session[s].status = "terminated" =>
                       session'[s].status = "terminated"]_vars

\* the message_chunk contents among the events a handler delivered
ChunksOf(em) ==
  LET RECURSIVE F(_)
      F(e) == IF e = <<>> THEN <<>>
              ELSE IF Head(e).type = "message_chunk"
                   THEN <<Head(e).data>> \o F(Tail(e))
                   ELSE F(Tail(e))
  IN F(em)

\* C6: when a session delivers an event other than message_chunk, no text
\* received earlier is still waiting in its buffer.
C6_TextBeforeStructuredEvents ==
  \A s \in Ids : \A i \in DOMAIN session[s].emitted :
     session[s].emitted[i].type # "message_chunk" =>
       session[s].emitted[i].pending = <<>>

\* C7, as stated: the fragments of a window that a flush closed (one or
\* more) were delivered as exactly one message_chunk, their concatenation.
C7_OneChunkPerWindow ==
  \A s \in Ids :
     closedWindow[s] # <<>> =>
       ChunksOf(session[s].emitted) = <<Concat(closedWindow[s])>>

\* C7, amended: the fragments of a window that a flush closed were
\* delivered as exactly one message_chunk, their concatenation, when that
\* concatenation is not empty, and as no event when it is empty; a handler
\* that closes no window delivers no message_chunk; after a flush the
\* buffer is empty, so the next fragment starts a window of its own; the
\* buffer holds the open window's fragments; at most one flush timer is
\* pending, and it is the one the session holds.
C7_OneChunkPerNonEmptyWindow ==
  \A s \in Ids :
     /\ ChunksOf(session[s].emitted) =
          IF Concat(closedWindow[s]) = <<>> THEN <<>>
          ELSE <<Concat(closedWindow[s])>>
     /\ session[s].textBuffer = Concat(windowFrags[s])
     /\ session[s].pendingFlush <= 1
     /\ session[s].textFlushTimeout <=> session[s].pendingFlush = 1
     /\ windowFrags[s] # <<>> => session[s].textFlushTimeout

\* a window of the two fragments "a" and "b" was flushed as one chunk
C7_Witness ==
  /\ Len(closedWindow["s1"]) = 2
  /\ ChunksOf(session["s1"].emitted) = <<(<<"a", "b">>)>>

\* the <<call id, tool name>> of the tool_result events a handler delivered
ResultsOf(em) ==
  LET RECURSIVE F(_)
      F(e) == IF e = <<>> THEN <<>>
              ELSE IF Head(e).type = "tool_result"
                   THEN <<Head(e).data>> \o F(Tail(e))
                   ELSE F(Tail(e))
  IN F(em)

C9_CallbackFailureIsHarmless ==
  [][\A s \in Ids, m \in CallbackMsgs, o \in {"reject", "throw"},
        oe \in Outcomes :
       ProcessMessage(s, m, o, oe) =>
         LET good == processMessages(Enter(session[s]), m, "ok", "ok")
         IN /\ session'[s].status = good.status
            /\ session'[s].messageLoop = good.messageLoop]_vars

\* the error events among the events a handler delivered
ErrorsOf(em) ==
  LET RECURSIVE F(_)
      F(e) == IF e = <<>> THEN <<>>
              ELSE IF Head(e).type = "error"
                   THEN <<Head(e).data>> \o F(Tail(e))
                   ELSE F(Tail(e))
  IN F(em)

\* C10: a fatal error of one session's message loop leaves that session
\* terminated with its input channel ended, delivers one error event, and
\* leaves every other session as it was.
C10_FatalErrorIsLocal ==
  [][\A s \in Ids :
       (session[s].messageLoop = "running"
          /\ session'[s].messageLoop = "failed") =>
         /\ session'[s].status = "terminated"
         /\ session'[s].input.ended
         /\ Len(ErrorsOf(session'[s].emitted)) = 1
         /\ \A other \in Ids \ {s} : session'[other] = session[other]]_vars

(***************************************************************************)
(* Properties of the pending-request broker.                               *)
(***************************************************************************)
pendingAll == pendingQuestions \cup pendingPermissions

C13_TerminateClearsOwnPending ==
  [][/\ \A c \in Calls : TerminateSessionResume(c) =>
          LET sid == call[c].sid
              owned == ownedBy(pendingAll, sid)
          IN /\ pendingQuestions' = {e \in pendingQuestions : e.sessionId # sid}
             /\ pendingPermissions' =
                  {e \in pendingPermissions : e.sessionId # sid}
             /\ timeouts' = timeouts \ owned
             /\ \A k \in CorrIds :
                  rejectCalls'[k] = rejectCalls[k] + (IF k \in owned THEN 1 ELSE 0)
     /\ \A sid \in doneTerminate' :
          ownedBy(pendingQuestions' \cup pendingPermissions', sid) = {}]_vars

\* s1 was terminated while it owned a pending entry (rejected, not by its
\* timer), and an entry of s2 is still pending with its timer armed
C13_Witness ==
  /\ "s1" \in doneTerminate
  /\ \E k \in CorrIds : /\ rejectCalls[k] = 1
                        /\ k \notin completed
                        /\ k \notin timeouts
  /\ \E e \in pendingAll : e.sessionId = "s2" /\ e.id \in timeouts

(***************************************************************************)
(* Orphan recovery (StartupSpec).                                          *)
(***************************************************************************)
namesDeadProcess(lock) == lock.kind = "record" /\ lock.pid = "dead"

ownWorkspaceSurvives ==
  [][\A s \in usedIds : s \in workspaces => s \in workspaces']_vars

freshLockListsNothing ==
  [][(initPc # "lock" /\ initPc' = "lock") => sessions = {}]_vars

\* C15: orphan recovery is over before any request is served: the startup
\* cleanup never removes the workspace directory of a session this process
\* created through createSession, and the lock record initialize() writes
\* after the recovery lists no session.
C15_RecoveryBeforeRequests == ownWorkspaceSurvives /\ freshLockListsNothing

(***************************************************************************)
(* Properties of the webhook sender.                                       *)
(***************************************************************************)
allFailed(b) ==
  /\ b.result = "dropped"
  /\ \A k \in 1..Len(b.responses) : b.responses[k] = "5xx"

answered(b, r) == \E k \in 1..Len(b.responses) : b.responses[k] = r

\* C16: a batch answered 500 on every attempt is retried exactly 3 times,
\* after backoff delays of 100, 200 and 400 ms, and then dropped; a batch
\* answered 400 is never retried and a batch answered 2xx is never sent
\* again (the answered request is its last one).
C16_RetryThreeTimesThenDrop ==
  \A i \in 1..Len(batches) :
    LET b == batches[i]
    IN /\ allFailed(b) => /\ b.requests = 1 + 3
                          /\ b.delays = <<100, 200, 400>>
       /\ \A r \in {"4xx", "2xx"} :
            answered(b, r) =>
              /\ b.pc = "done"
              /\ b.requests = Len(b.responses)
              /\ b.responses[Len(b.responses)] = r

typesOf(q) == {q[k].type : k \in 1..Len(q)}

C18_OnlyThinkingFiltered ==
  [][(offered' = offered + 1 /\ lastCall'.type # "thinking")
       => queue' = Append(queue, eventToPayload(offered', lastCall'.type))
    ]_vars

flushStep == lastCall'.op \in {"flush", "timer"}

\* C19: the flush timer is armed only by the queueEvent call that makes the
\* empty queue non-empty; a flush, by the timer or called directly, hands
\* the whole queue in its order to one sendToPoke call (one request is
\* issued), and leaves the queue empty and the timer disarmed; a flush of
\* an empty queue starts no request; the timer is armed exactly while the
\* queue is non-empty.
C19_OneTimerOneBatchPerFlush ==
  /\ [](timer <=> queue # <<>>)
  /\ [][(~timer /\ timer') => (queue = <<>> /\ queue' # <<>>)]_vars
  /\ [][flushStep =>
          /\ ~timer'
          /\ queue' = <<>>
          /\ IF queue = <<>>
             THEN batches' = batches
             ELSE /\ Len(batches') = Len(batches) + 1
                  /\ \A i \in 1..Len(batches) : batches'[i] = batches[i]
                  /\ batches'[Len(batches')].updates = queue
                  /\ batches'[Len(batches')].requests = 1
       ]_vars

C19_Witness ==
  /\ lastCall.op = "timer"
  /\ Len(batches) = 1
  /\ Len(batches[1].updates) = 2
  /\ queue = <<>>
  /\ ~timer

copiesOf(n) ==
  Cardinality({k \in 1..Len(queue) : queue[k].n = n})
    + Cardinality({<<i, k>> \in (1..Len(batches)) \X (1..MaxEvents + 1) :
                     /\ k <= Len(batches[i].updates)
                     /\ batches[i].updates[k].n = n})

\* C20: every event queueEvent accepted is in the queue with the flush
\* timer armed, or in exactly one batch, never in both and never in two
\* batches, whatever the earlier batches are doing (request in flight,
\* backoff sleep, done).
C20_EachEventInOneBatch ==
  /\ \A n \in accepted : copiesOf(n) = 1
  /\ \A n \in 1..offered : n \notin accepted => copiesOf(n) = 0
  /\ queue # <<>> => timer

C20_Witness ==
  /\ Len(batches) = 2
  /\ batches[1].pc = "sleep"
  /\ batches[2].pc = "request"
  /\ accepted = {1, 2}

(***************************************************************************)
(* Properties of shutdown.                                                 *)
(***************************************************************************)
shutdownCompletes == shutdownPc # "done" /\ shutdownPc' = "done"

terminationStarts(s) ==
  /\ call[slotOf(s)].pc = "idle"
  /\ call'[slotOf(s)] = [op |-> "terminate", sid |-> s, pc |-> "awaitLoop"]
  /\ session'[s].status = "terminated"

\* C22: a sweep starts the termination of every registered session that
\* is idle and has been idle longer than the timeout, and of no other
\* session; it does so whatever the terminations started earlier are
\* doing, one that never completes included.
C22_SweepTerminatesStaleIdle ==
  [][sweeps' = sweeps + 1 =>
       \A s \in Ids :
         terminationStarts(s) <=>
           (s \in sessions /\ session[s].status = "idle" /\ s \in lastExpired')
    ]_vars

\* the second sweep has started s2's termination while s1's, started by
\* the first, is still waiting for its message loop
C22_Witness ==
  /\ sweeps = 2
  /\ lastExpired = {"s2"}
  /\ call["c1"].pc = "awaitLoop"
  /\ call["c2"].pc = "awaitLoop"
  /\ session["s1"].messageLoop = "running"
  /\ "s2" \in sessions
  /\ doneTerminate = {}

(***************************************************************************)
(* Properties of the session's commands.                                   *)
(***************************************************************************)
cancelledEvent(e) == e.type = "session_ended" /\ e.data = <<"cancelled">>

\* C23: cancel calls the query's interrupt and, as soon as that call has
\* returned, leaves the session idle and delivers exactly one event,
\* session_ended with reason cancelled; it waits for no message of the
\* process.
C23_CancelForcesIdle ==
  [][\A s \in Ids :
       /\ (~session[s].interrupting /\ session'[s].interrupting)
            => (session'[s].cancelled /\ session'[s].emitted = <<>>)
       /\ (session[s].interrupting /\ ~session'[s].interrupting)
            => /\ session'[s].status = "idle"
               /\ Len(session'[s].emitted) = 1
               /\ cancelledEvent(session'[s].emitted[1])
    ]_vars

\* cancelled while active, with the prompt still unread by the process and
\* the message loop running
C23_Witness ==
  /\ session["s1"].status = "idle"
  /\ session["s1"].cancelled
  /\ Len(session["s1"].emitted) = 1
  /\ cancelledEvent(session["s1"].emitted[1])
  /\ session["s1"].messageLoop = "running"
  /\ session["s1"].input.queue # <<>>

(***************************************************************************)
(* Properties of the command handlers.                                     *)
(***************************************************************************)
isBatch(r) == r.tool \in {"batch_send_prompts", "batch_terminate_sessions"}
done(r) == IF r.tool = "batch_send_prompts" THEN "prompt_sent" ELSE "terminated"

\* C24: a handler never throws: it returns a success, or a failure with
\* the code of the application error, or with INTERNAL_ERROR for any other
\* exception; a batch handler returns a success with one item per id, in
\* order, where an id that is not registered has status error and every
\* other id has had its operation performed.
C24_HandlersReturnStructured ==
  /\ [](/\ ~toolResult.thrown
        /\ toolResult.cause = "return" => ~toolResult.isError
        /\ toolResult.cause = "AppError" =>
             /\ toolResult.isError
             /\ toolResult.code \in {"SESSION_NOT_FOUND", "SESSION_STATE_ERROR"}
        /\ toolResult.cause \in {"Error", "other"} =>
             (toolResult.isError /\ toolResult.code = "INTERNAL_ERROR")
        /\ isBatch(toolResult) =>
             /\ ~toolResult.isError
             /\ Len(toolResult.results) = Len(toolResult.input)
             /\ \A k \in 1..Len(toolResult.input) :
                  /\ toolResult.results[k].sessionId = toolResult.input[k]
                  /\ toolResult.results[k].status
                       \in {done(toolResult), "error"})
  /\ [][(toolCalls' = toolCalls + 1 /\ isBatch(toolResult')) =>
          \A k \in 1..Len(toolResult'.input) :
            LET sid == toolResult'.input[k]
                item == toolResult'.results[k]
            IN IF item.status = "error"
               THEN sid \notin sessions
               ELSE IF toolResult'.tool = "batch_send_prompts"
               THEN /\ sid \in sessions
                    /\ session'[sid].status = "active"
                    /\ ~session'[sid].cancelled
               ELSE /\ sid \in doneTerminate
                    /\ sid \notin sessions
       ]_vars

\* a batch over an unknown and a registered id: the first item failed, the
\* second session was terminated
C24_Witness ==
  /\ toolResult.tool = "batch_terminate_sessions"
  /\ toolResult.input = <<"s3", "s2">>
  /\ toolResult.results =
       <<Item("s3", "error"), Item("s2", "terminated")>>
  /\ sessions = {"s1"}
  /\ toolCalls = 2

(***************************************************************************)
(* Properties of the lock file.                                            *)
(***************************************************************************)
\* C25: at every moment the file at the lock path is absent or is one
\* complete record, never an empty, partial or mixed one, whatever create
\* and terminate calls overlap.
C25_LockFileIsOneRecord == lockFile.kind \in {"absent", "record"}


(***************************************************************************)
(* Properties of the workspace readers (FilesSpec).                        *)
(***************************************************************************)
\* the target is the workspace directory or lies under it
insideWorkspace(a) == startsWithSegments(a.target, a.workspace)

\* C26: a reader given a path that resolves outside the session's workspace
\* directory fails with a file-access error and makes no file-system call on
\* the target, a directory beside the workspace whose name starts with the
\* workspace's name included.
C26_OutsidePathsRejected ==
  (fileAccess.op # "none" /\ fileAccess.workspace # <<>>
     /\ ~insideWorkspace(fileAccess))
    => (fileAccess.code = "FILE_ACCESS_ERROR" /\ fileAccess.fsCall = "none")

(***************************************************************************)
(* Properties of the chunk cache (ChunkSpec).                              *)
(***************************************************************************)
isPrefix(p, q) == Len(p) <= Len(q) /\ SubSeq(q, 1, Len(p)) = p

successfulRead(sid) ==
  /\ lastRead'.sid = sid
  /\ lastRead'.code = "none"
  /\ readLog'[sid] = readLog[sid] \o lastRead'.chunks

\* C27: a read of a registered session returns, in the order they were
\* emitted, exactly the chunks emitted since the session's previous read
\* (what the reads returned so far, put in a row, is then every chunk emitted
\* so far) and leaves the cache empty; no chunk is returned twice (what the
\* reads returned is always a beginning of what was emitted); a read of an id
\* that is not registered fails with SESSION_NOT_FOUND and returns nothing.
C27_ReadReturnsNewChunksOnce ==
  /\ [][\A sid \in Ids :
         ReadMessageHistory(sid) =>
           IF sid \in sessions
           THEN /\ successfulRead(sid)
                /\ readLog'[sid] = chunkLog[sid]
                /\ messageChunks'[sid] = <<>>
           ELSE /\ lastRead'.code = "SESSION_NOT_FOUND"
                /\ lastRead'.chunks = <<>>
                /\ readLog' = readLog]_vars
  /\ [](\A sid \in Ids : isPrefix(readLog[sid], chunkLog[sid]))

\* a read has returned two different chunks in their order, the chunk
\* emitted before them having gone to the read before it
C27_Witness ==
  /\ Len(chunkLog["s2"]) = 3
  /\ lastRead.sid = "s2"
  /\ Len(lastRead.chunks) = 2
  /\ chunkLog["s2"][2] # chunkLog["s2"][3]
  /\ readLog["s2"] = chunkLog["s2"]

(***************************************************************************)
(* Properties of plan mode (PlanSpec).                                     *)
(***************************************************************************)
\* C28: modifyPlan on a registered session whose plan-mode flag is false
\* fails with SESSION_STATE_ERROR and leaves the session as it is (nothing
\* pushed to its input, status unchanged); with the flag true it sends the
\* feedback the way sendPrompt does (status active, the prompt pushed to the
\* input).  approvePlan on a registered session leaves the permission mode
\* bypassPermissions and the plan-mode flag false.
C28_PlanModeGuard ==
  /\ [][\A sid \in sessions :
         ModifyPlan(sid) =>
           IF session[sid].inPlanMode
           THEN /\ lastResult'.res = "ok"
                /\ session'[sid].status = "active"
                /\ session'[sid].input = push(session[sid].input, "prompt")
                /\ session'[sid].inPlanMode
           ELSE /\ lastResult'.res = "SESSION_STATE_ERROR"
                /\ session'[sid] = session[sid]]_vars
  /\ [][\A sid \in sessions, q \in {"ok", "reject"} :
         ApprovePlan(sid, "ok", q) =>
           /\ session'[sid].permissionMode = "bypassPermissions"
           /\ ~session'[sid].inPlanMode]_vars

\* feedback went to a session in plan mode that was idle
C28_Witness ==
  /\ lastResult = [op |-> "modifyPlan", sid |-> "s1", res |-> "ok"]
  /\ session["s1"].inPlanMode
  /\ session["s1"].status = "active"
  /\ session["s1"].input.queue = <<"prompt">>

(***************************************************************************)
(* Properties of the order of delivery (DeliverySpec).                     *)
(***************************************************************************)
\* C29: batches reach the remote in the order they were flushed: no request
\* of a later batch is accepted (answered 2xx) while an earlier batch is
\* still being sent, waiting for a response or in a backoff sleep.
C29_BatchesDeliveredInFlushOrder ==
  \A i, j \in 1..Len(batches) :
    (i < j /\ batches[j].result = "sent") => batches[i].pc = "done"

(***************************************************************************)
(* Properties of the input channel (PushableSpec).                         *)
(***************************************************************************)
\* the values pushed before end(), in push order
RECURSIVE pushedBeforeEnd(_)
pushedBeforeEnd(log) ==
  IF log = <<>> THEN <<>>
  ELSE IF Head(log).afterEnd THEN pushedBeforeEnd(Tail(log))
  ELSE <<Head(log).value>> \o pushedBeforeEnd(Tail(log))

\* C30: the consumer gets the values in push order (what it got is a
\* beginning of what was pushed before end()); when it gets done it has got
\* every value pushed before end(), and no done before that; a push after
\* end() changes nothing; end() settles a waiting consumer's next() with
\* done.
C30_PushableOrderAndEnd ==
  /\ [](IF consumerDone
        THEN delivered = pushedBeforeEnd(pushLog) \o <<Done>>
        ELSE isPrefix(delivered, pushedBeforeEnd(pushLog)))
  /\ [][(ChanPush /\ chan.ended) =>
           (chan' = chan /\ delivered' = delivered)]_vars
  /\ [][(ChanEnd /\ chan.resolve) =>
           (delivered' = Append(delivered, Done) /\ ~chan'.resolve)]_vars

\* two values pushed before end() were still queued at end(), a push after
\* end() was made, and the consumer got the two values and then done
C30_Witness ==
  /\ Len(pushLog) = 3
  /\ ~pushLog[2].afterEnd
  /\ pushLog[3].afterEnd
  /\ delivered = <<1, 2, Done>>

(***************************************************************************)
(* Properties of a session after a cancel (SessionSpec).                   *)
(***************************************************************************)
\* C31: a cancel does not end the processing loop: the loop of a registered
\* session has ended only if the session was terminated or failed (its input
\* channel is closed), so a prompt sent after a cancel still has its
\* messages processed and its result message returns the session to idle.
C31_CancelKeepsLoopRunning ==
  \A s \in sessions :
    session[s].messageLoop # "running" => session[s].input.ended

\* the call's message went onto the channel: to the queue, or to the
\* consumer that was waiting for it
enqueued(s) == session'[s].input # session[s].input

\* C32: a sendPrompt or sendSlashCommand that returns without an error has
\* put its message on the session's input channel; none is reported as sent
\* while the channel, already closed, dropped it.
C32_SentMeansEnqueued ==
  /\ [][\A s \in sessions : SendPrompt(s) => enqueued(s)]_vars
  /\ [][\A s \in sessions, command \in Commands :
         SendSlashCommand(s, command, "ok") => enqueued(s)]_vars

(***************************************************************************)
(* Properties of overlapping terminations (Spec).                          *)
(***************************************************************************)
\* the terminateSession call in slot c returns without an error
terminateSucceeds(c) ==
  /\ call[c].op = "terminate"
  /\ call'[c] = NoCall
  /\ lastResult' = [op |-> "terminate", sid |-> call[c].sid, res |-> "ok"]

\* C33: for one session id at most one terminateSession call succeeds: no
\* call succeeds for an id for which a call has succeeded before, also when
\* the two calls overlap.
C33_OneTerminateSucceeds ==
  [][\A c \in Calls :
       terminateSucceeds(c) => call[c].sid \notin doneTerminate]_vars

(***************************************************************************)
(* Properties of the lock file after shutdown (ShutdownSpec).              *)
(***************************************************************************)
\* C34: once shutdown has completed and removed the lock file, the file
\* stays absent: no later step writes it again.
C34_LockFileStaysAbsent == shutdownPc = "done" => lockFile.kind = "absent"

(***************************************************************************)
(* Properties of a terminated session's events (SessionSpec).              *)
(***************************************************************************)
\* a handler of session s runs and delivers an event to the manager's
\* handleSessionEvent, which forwards every event it is given
forwardsEvent(s) ==
  /\ session'[s] # session[s]
  /\ session'[s].emitted # <<>>

\* C35: once terminateSession has completed for a session, no event of that
\* session is forwarded any more, not even by an operation that was in
\* flight when the termination started.
C35_NoEventAfterTermination ==
  [][\A s \in doneTerminate : ~forwardsEvent(s)]_vars

(***************************************************************************)
(* Properties of failed sessions (FailedSpec).                             *)
(***************************************************************************)
\* the session's message loop ended with a fatal error
failed(s) ==
  /\ s \in sessions
  /\ session[s].messageLoop = "failed"
  /\ session[s].status = "terminated"

\* C36: a registered session whose loop ended with a fatal error leaves the
\* registry without any client call: if it is failed while a sweep of the
\* reaper is still to come, it is eventually no longer registered.
C36_FailedSessionIsReaped ==
  \A s \in {"s1", "s2"} :
    (failed(s) /\ sweeps < MaxSweeps) ~> (s \notin sessions)


(***************************************************************************)
(* Properties of the eviction timers (ToolSpec)                            *)
(***************************************************************************)

\* C37: each tracked call id has at most one live eviction timer, and while
\* a timer is live for an id the entry it was created with is still
\* tracked: a timer of an earlier tracking never removes the newer entry
C37_OneTimerPerTrackedCall ==
  \A s \in Ids : \A t \in ToolIds :
     /\ session[s].pendingTtl[t] <= 1
     /\ session[s].pendingTtl[t] = 1 => session[s].toolCallNames[t] # "none"


(***************************************************************************)
(* Ownership of the pending entries (BrokerSpec)                           *)
(***************************************************************************)

\* C38: every pending question or permission entry is owned by a session
\* that is in the registry
C38_PendingOwnerIsRegistered ==
  \A e \in pendingQuestions \cup pendingPermissions : e.sessionId \in sessions

\* s2 left the registry while it owned two entries of one map, both were
\* rejected by its termination, and an entry of s1 is still pending
C38_Witness ==
  /\ "s2" \in usedIds \ sessions
  /\ \E j, k \in QuestionIds : /\ j # k
                               /\ rejectCalls[j] = 1 /\ rejectCalls[k] = 1
                               /\ {j, k} \cap (completed \cup timeouts) = {}
  /\ \E e \in pendingPermissions : e.sessionId = "s1"


(***************************************************************************)
(* Properties of the answer commands (AnswerSpec)                          *)
(***************************************************************************)
ownerOf(pending, id) == (CHOOSE e \in pending : e.id = id).sessionId

C40_TimerArmedIffQueued == timer <=> queue # <<>>

\* a batch was flushed (queue emptied, timer disarmed) and a later event is
\* queued with the timer armed again
C40_Witness ==
  /\ batches # <<>>
  /\ lastCall.op = "queueEvent"
  /\ Len(queue) = 1
  /\ timer

====
